------------------------------ MODULE ContractRun ------------------------------
(***************************************************************************)
(* The contract-run corridor of src/http/mod.rs: runs of registered        *)
(* contracts that advance step by step, human gates, the observation log   *)
(* and the evidence snapshots.                                             *)
(*                                                                         *)
(* Every handler clones the run out of a map, works on the clone through   *)
(* an await, and writes the clone back.  A handler in flight is a record   *)
(* in `req`; each action below is one critical section of a handler (one   *)
(* lock scope or one await), so requests interleave where the code lets go *)
(* of its locks.  The one exception: reading the registered flow and the   *)
(* append that follows it without an await are a single action.            *)
(***************************************************************************)
EXTENDS ContractFlow, FiniteSets

CONSTANTS
  RunIds,        \* run ids, one per request_id a client may send
  Contracts,     \* contract ids
  Workers,       \* requests that can be in flight at once
  Submissions,   \* flows clients may submit for registration, valid or not
  Seeded,        \* contracts present at start, with their flows
  Restarts,      \* whether the process may end and be started again
  MaxObs,        \* bound: no new request on a run whose log is this long
  MaxStarts      \* bound: times a run id is started

VARIABLES
  registry,      \* admitted_contracts: contract id -> flow or None
  runs,          \* contract_runs: run id -> run state or None
  log,           \* contract_run_observations: run id -> observations
  store,         \* run_store: run id -> persisted snapshot or None
  req,           \* the request each worker is serving, or None
  calls          \* history: connector calls of this process that reached the provider

vars == <<registry, runs, log, store, req, calls>>

-----------------------------------------------------------------------------
(* Data of a run *)

RunStatus == {"accepted", "in_progress", "waiting_review"} \cup Terminals

StepStatus == {"pending", "ready", "completed", "waiting_review", "blocked"}

ContractStep == [type : StepTypes, op : Ops \cup {None}, status : StepStatus]

Decisions == {"approve", "reject"}

\* gate_id is a function of the run and the step, so the step names the gate.
Gate == [step : Steps, status : {"waiting_review", "resolved"},
         decision : Decisions \cup {"none"}]

\* Reason code of an OperationAdmission; its decision is Allow for Allowed
\* and for the two codes the handlers write themselves after the fact.
Allowed == {"NEXT_OPERATION_ALLOWED", "HUMAN_GATE_APPROVED"}

Reasons == Allowed \cup
  {"CONTRACT_NOT_FOUND", "RUN_ALREADY_TERMINAL", "HUMAN_GATE_REQUIRED",
   "HUMAN_GATE_REJECTED", "HUMAN_GATE_STATE_INVALID", "OPERATION_NOT_ALLOWED",
   "OPERATION_ALLOWED"}

RunState == [contract  : Contracts,
             auth      : BOOLEAN,             \* contracts.run is in scope
             status    : RunStatus,
             step      : Steps,
             nextOp    : Ops \cup {None},
             steps     : [Steps -> ContractStep \cup {None}],
             gate      : Gate \cup {None},
             adm       : Reasons,
             completed : Nat,                 \* Len(completed_step_ids)
             count     : Nat]                 \* observation_count

\* `ref` is the number in evidence_ref; the "_001" of a start is 0.
Obs == [event   : {"started", "operation_admitted", "step_executed",
                   "transition_applied", "transition_failed", "gate_resolved"},
        step    : Steps,
        ref     : Nat,
        outcome : Outcomes \cup {"none"},
        detail  : Target \cup Reasons \cup {"connector", "approved_gate", "none"}]

Observe(event, s, ref, outcome, detail) ==
  [event |-> event, step |-> s, ref |-> ref, outcome |-> outcome, detail |-> detail]

Snapshot == [status : RunStatus, obs : Seq(Obs)]

Call == [step : Steps, admitted : Nat]

\* A handler in flight: where it stands, its clone of the run, and the locals
\* that survive a lock scope.  The code also holds its clone of the registered
\* flow, but only to resolve one transition: `target` is that result.
Points == {"admit", "call", "record", "trace", "decide", "resolved",
           "insert", "persist", "put", "evidence"}

Request == [at       : Points,
            run      : RunIds,
            st       : RunState,
            from     : Steps,               \* step the request acts on
            outcome  : Outcomes \cup {"none"},
            target   : Target \cup {None},
            snap     : Seq(Obs)]

-----------------------------------------------------------------------------
ASSUME RunConstantsAssumption ==
  /\ MaxObs \in Nat /\ MaxStarts \in Nat /\ Restarts \in BOOLEAN
  /\ Submissions \subseteq Flow
  /\ Seeded \in [Contracts -> Flow \cup {None}]
  /\ \A c \in Contracts : Seeded[c] # None => ValidFlow(Seeded[c])

ASSUME RunAbsenceAssumption ==
  /\ None \notin RunState
  /\ None \notin ContractStep
  /\ None \notin Gate
  /\ None \notin Snapshot
  /\ None \notin Request

-----------------------------------------------------------------------------
(* Pure helpers of the handlers *)

IsTerminal(x) == x.status \in Terminals

StepType(x) == x.steps[x.step].type

\* contract_steps_from_flow
StepsFromFlow(f) ==
  [s \in Steps |->
     IF HasStep(f, s)
     THEN [type   |-> f.steps[s].type,
           op     |-> f.steps[s].op,
           status |-> IF s = f.entry THEN "ready" ELSE "pending"]
     ELSE None]

\* gate_for_step
GateForStep(s) == [step |-> s, status |-> "waiting_review", decision |-> "none"]

SetStepStatus(x, s, status) == [x EXCEPT !.steps[s].status = status]

\* connector_metadata_for_current_step: read from the flow registered NOW.
HasConnectorMetadata(f, s) ==
  HasStep(f, s) /\ f.steps[s].type = "connector_action" /\ f.steps[s].connector

\* Mutant of GateVerdict: a missing gate does not stop the gated step.
LenientGateVerdict(gate) ==
  IF gate = None THEN "HUMAN_GATE_APPROVED"
  ELSE IF gate.status = "waiting_review" THEN "HUMAN_GATE_REQUIRED"
  ELSE IF gate.decision = "approve" THEN "HUMAN_GATE_APPROVED"
  ELSE "HUMAN_GATE_REJECTED"

GateVerdict(gate) ==
  IF gate = None THEN "HUMAN_GATE_STATE_INVALID"
  ELSE IF gate.status = "waiting_review" THEN "HUMAN_GATE_REQUIRED"
  ELSE IF gate.decision = "approve" THEN "HUMAN_GATE_APPROVED"
  ELSE "HUMAN_GATE_REJECTED"

\* build_current_operation_admission, reduced to its reason code.
Admission(x, f) ==
  IF f = None THEN "CONTRACT_NOT_FOUND"
  ELSE IF IsTerminal(x) THEN "RUN_ALREADY_TERMINAL"
  ELSE IF StepType(x) = "human_gate" /\ GateVerdict(x.gate) # "HUMAN_GATE_APPROVED"
         THEN GateVerdict(x.gate)
  ELSE IF ~x.auth THEN "OPERATION_NOT_ALLOWED"
  ELSE IF HasConnectorMetadata(f, x.step) THEN "NEXT_OPERATION_ALLOWED"
  ELSE IF StepType(x) = "terminal" THEN "RUN_ALREADY_TERMINAL"
  ELSE "HUMAN_GATE_APPROVED"     \* gates and deterministic actions alike

\* apply_transition_to_run_state fails only for a step the run does not have.
Applicable(x, t) == t \in Steps => x.steps[t] # None

\* Mutants of EnterStep: the gate of the step left behind is kept, and a gate
\* whose id is known is not opened again.
EnterStepKeepingGate(x, s) ==
  LET there == [x EXCEPT !.step = s, !.nextOp = x.steps[s].op] IN
  IF x.steps[s].type = "human_gate"
  THEN [SetStepStatus(there, s, "waiting_review") EXCEPT
          !.status = "waiting_review", !.gate = GateForStep(s)]
  ELSE [SetStepStatus(there, s, "ready") EXCEPT !.status = "in_progress"]

EnterStepReusingGate(x, s) ==
  LET there == [x EXCEPT !.step = s, !.nextOp = x.steps[s].op] IN
  IF x.steps[s].type = "human_gate" /\ (x.gate = None \/ x.gate.step # s)
  THEN [SetStepStatus(there, s, "waiting_review") EXCEPT
          !.status = "waiting_review", !.gate = GateForStep(s)]
  ELSE IF x.steps[s].type = "terminal"
  THEN [SetStepStatus(there, s, "completed") EXCEPT !.status = "completed"]
  ELSE [SetStepStatus(there, s, "ready") EXCEPT !.status = "in_progress"]

EnterStep(x, s) ==
  LET there == [x EXCEPT !.step = s, !.gate = None, !.nextOp = x.steps[s].op] IN
  CASE x.steps[s].type = "human_gate" ->
         [SetStepStatus(there, s, "waiting_review") EXCEPT
            !.status = "waiting_review", !.gate = GateForStep(s)]
    [] x.steps[s].type \in {"connector_action", "deterministic_action"} ->
         [SetStepStatus(there, s, "ready") EXCEPT !.status = "in_progress"]
    [] x.steps[s].type = "terminal" ->
         [SetStepStatus(there, s, "completed") EXCEPT
            !.status = "completed", !.nextOp = None]

ApplyTransition(x, t) ==
  IF t \in Steps THEN EnterStep(x, t)
  ELSE [x EXCEPT !.status = t, !.nextOp = None, !.gate = None]

\* Mutant of FailRun: the operation and the gate are dropped, the status stays.
FailRunKeepingStatus(x) == [x EXCEPT !.nextOp = None, !.gate = None]

\* What both handlers do to the clone when the flow has no such transition.
FailRun(x) == [x EXCEPT !.status = "failed", !.nextOp = None, !.gate = None]

\* The state post_contract_run_start builds before its first observation.
NewRun(c, f, auth) ==
  LET x == [contract |-> c, auth |-> auth, status |-> "accepted",
            step |-> f.entry, nextOp |-> f.steps[f.entry].op,
            steps |-> StepsFromFlow(f), gate |-> None,
            adm |-> "OPERATION_ALLOWED", completed |-> 0, count |-> 0]
  IN [x EXCEPT !.adm = Admission(x, f)]

-----------------------------------------------------------------------------
(* The shared maps *)

Init == /\ registry = Seeded
        /\ runs = [r \in RunIds |-> None]
        /\ log = [r \in RunIds |-> <<>>]
        /\ store = [r \in RunIds |-> None]
        /\ req = [w \in Workers |-> None]
        /\ calls = [r \in RunIds |-> <<>>]

\* append_contract_run_observation; the reference comes from the clone's own
\* counter, the new counter from the length of the log.
AppendObs(r, obs) == log' = [log EXCEPT ![r] = Append(@, obs)]

NextRef(x) == x.count + 1

\* Mutants of CountOf: the length before the append, and one less.
StaleCount(r) == Len(log[r])

CountBelow(r) == Len(log[r]) - 1

CountOf(r) == Len(log[r]) + 1

Idle(w) == req[w] = None

Respond(w) == req' = [req EXCEPT ![w] = None]

Continue(w, point, x) == req' = [req EXCEPT ![w].at = point, ![w].st = x]

Serve(w, point, r, x, s, outcome) ==
  req' = [req EXCEPT ![w] = [at |-> point, run |-> r, st |-> x, from |-> s,
                             outcome |-> outcome, target |-> None, snap |-> <<>>]]

\* Bounds: a request is accepted only while its run's log is short, and a
\* run id is started a few times at most by one process.
WithinBound(r) == Len(log[r]) < MaxObs

Starts(r) == Cardinality({i \in DOMAIN log[r] : log[r][i].event = "started"})

-----------------------------------------------------------------------------
(* POST /contracts/register: a valid flow replaces whatever was registered *)
(* under the id; runs in progress are not consulted.                       *)
Register(c, f) ==
  /\ ValidFlow(f)
  /\ registry' = [registry EXCEPT ![c] = f]
  /\ UNCHANGED <<runs, log, store, req, calls>>

\* Mutant of Start: a run that is started anew starts a new log.
StartClearsLog(w, r, c, auth) ==
  /\ Idle(w) /\ WithinBound(r) /\ Starts(r) < MaxStarts
  /\ registry[c] # None
  /\ auth
  /\ ValidFlow(registry[c])
  /\ LET x == NewRun(c, registry[c], auth) IN
     /\ log' = [log EXCEPT ![r] = << Observe("started", x.step, 0, "none", "none") >>]
     /\ Serve(w, "insert", r, [x EXCEPT !.count = 1], x.step, "none")
  /\ UNCHANGED <<registry, runs, store, calls>>

-----------------------------------------------------------------------------
(* POST /contracts/{id}/runs.  The run id is derived from the client's     *)
(* request_id, and nothing checks whether that run exists.                 *)
Start(w, r, c, auth) ==
  /\ Idle(w) /\ WithinBound(r) /\ Starts(r) < MaxStarts
  /\ registry[c] # None
  /\ auth
  /\ ValidFlow(registry[c])
  /\ LET x == NewRun(c, registry[c], auth) IN
     /\ AppendObs(r, Observe("started", x.step, 0, "none", "none"))
     /\ Serve(w, "insert", r, [x EXCEPT !.count = CountOf(r)], x.step, "none")
  /\ UNCHANGED <<registry, runs, store, calls>>

\* contract_runs.insert(run_id, clone): whatever is there is overwritten.
Insert(w) ==
  /\ ~Idle(w) /\ req[w].at = "insert"
  /\ runs' = [runs EXCEPT ![req[w].run] = req[w].st]
  /\ Continue(w, "persist", req[w].st)
  /\ UNCHANGED <<registry, log, store, calls>>

\* persist_contract_run_snapshot reads the log under its lock ...
PersistRead(w) ==
  /\ ~Idle(w) /\ req[w].at = "persist"
  /\ req' = [req EXCEPT ![w].at = "put", ![w].snap = log[req[w].run]]
  /\ UNCHANGED <<registry, runs, log, store, calls>>

\* The evidence knows no status between the start and the end of a run.
EvidenceStatus(x) == IF IsTerminal(x) THEN x.status ELSE "in_progress"

\* ... and awaits put_snapshot, after which the handler answers.
PersistPut(w) ==
  /\ ~Idle(w) /\ req[w].at = "put"
  /\ store' = [store EXCEPT ![req[w].run] =
                 [status |-> EvidenceStatus(req[w].st), obs |-> req[w].snap]]
  /\ Respond(w)
  /\ UNCHANGED <<registry, runs, log, calls>>

\* The store is unavailable: 503 or, after a failed transition, ignored.
\* Either way the run map keeps what was inserted.
PersistFail(w) ==
  /\ ~Idle(w) /\ req[w].at = "put"
  /\ Respond(w)
  /\ UNCHANGED <<registry, runs, log, store, calls>>

-----------------------------------------------------------------------------
(* GET /contract-runs/{id}/next: recomputes and stores last_admission.     *)
GetNext(r) ==
  /\ runs[r] # None /\ WithinBound(r)
  /\ runs' = [runs EXCEPT ![r].adm = Admission(runs[r], registry[runs[r].contract])]
  /\ UNCHANGED <<registry, log, store, req, calls>>

-----------------------------------------------------------------------------
(* GET /contract-runs/{id}/evidence: the run is cloned first and the log    *)
(* under another lock; the answer carries the status of the one and the     *)
(* steps, gates and transitions of the other.                               *)
EvidenceRead(w, r) ==
  /\ Idle(w)
  /\ runs[r] # None
  /\ Serve(w, "evidence", r, runs[r], runs[r].step, "none")
  /\ UNCHANGED <<registry, runs, log, store, calls>>

\* The answer, should EvidenceAnswer(w) be the next step.
Evidence(w) == [status |-> req[w].st.status, obs |-> log[req[w].run]]

EvidenceAnswer(w) ==
  /\ ~Idle(w) /\ req[w].at = "evidence"
  /\ Respond(w)
  /\ UNCHANGED <<registry, runs, log, store, calls>>

-----------------------------------------------------------------------------
(* POST /contract-runs/{id}/steps/{step}/execute *)

\* Clone the run; the guards that answer 409 or 403 look at the clone only.
ExecuteRead(w, r, s, op) ==
  /\ Idle(w) /\ WithinBound(r)
  /\ runs[r] # None
  /\ runs[r].step = s
  /\ runs[r].status # "waiting_review"
  /\ ~IsTerminal(runs[r])
  /\ runs[r].nextOp = op
  /\ Serve(w, "admit", r, runs[r], s, "none")
  /\ UNCHANGED <<registry, runs, log, store, calls>>

\* Admission of the cloned run against the flow registered now.
ReqAdmission(w) == Admission(req[w].st, registry[req[w].st.contract])

ExecuteDeny(w) ==
  /\ ~Idle(w) /\ req[w].at = "admit"
  /\ ReqAdmission(w) \notin Allowed
  /\ Respond(w)
  /\ UNCHANGED <<registry, runs, log, store, calls>>

ExecuteOutcome(x) == IF StepType(x) = "human_gate" THEN "approve" ELSE "default"

\* The admitted clone, and the transition it will take in the flow as
\* registered now: later registrations do not reach this handler.
Admitted(w) ==
  LET q == req[w] IN
  [q EXCEPT
     !.st      = [q.st EXCEPT !.adm = ReqAdmission(w), !.count = CountOf(q.run)],
     !.outcome = ExecuteOutcome(q.st),
     !.target  = ResolveFlowTransition(registry[q.st.contract], q.st.step,
                                       ExecuteOutcome(q.st))]

\* operation_admitted is recorded before anything else happens.  A connector
\* step whose metadata is gone from the registered flow is then refused with
\* 403, without a write-back.
ExecuteAdmit(w) ==
  /\ ~Idle(w) /\ req[w].at = "admit"
  /\ ReqAdmission(w) \in Allowed
  /\ AppendObs(req[w].run, Observe("operation_admitted", req[w].st.step,
                                   NextRef(req[w].st), "none", ReqAdmission(w)))
  /\ \/ /\ StepType(req[w].st) # "connector_action"
        /\ req' = [req EXCEPT ![w] = [Admitted(w) EXCEPT !.at = "record"]]
     \/ /\ StepType(req[w].st) = "connector_action"
        /\ ReqAdmission(w) = "NEXT_OPERATION_ALLOWED"
        /\ req' = [req EXCEPT ![w] = [Admitted(w) EXCEPT !.at = "call"]]
     \/ /\ StepType(req[w].st) = "connector_action"
        /\ ReqAdmission(w) # "NEXT_OPERATION_ALLOWED"
        /\ Respond(w)
  /\ UNCHANGED <<registry, runs, store, calls>>

\* The request reaches the provider, and the answer may be lost or an error.
Deliver(w) ==
  calls' = [calls EXCEPT ![req[w].run] =
              Append(@, [step |-> req[w].st.step, admitted |-> req[w].st.count])]

ConnectorOk(w) ==
  /\ ~Idle(w) /\ req[w].at = "call"
  /\ Deliver(w)
  /\ Continue(w, "record", req[w].st)
  /\ UNCHANGED <<registry, runs, log, store>>

\* On an error the handler answers 502 and drops its clone, whether or not
\* the provider acted (a timeout, or a connection refused).
ConnectorErr(w) ==
  /\ ~Idle(w) /\ req[w].at = "call"
  /\ Deliver(w) \/ UNCHANGED calls
  /\ Respond(w)
  /\ UNCHANGED <<registry, runs, log, store>>

StepDone(x) ==
  [SetStepStatus(x, x.step, "completed") EXCEPT !.completed = @ + 1]

\* Mutant of ExecuteRecord: the transition is applied, its trace is left out.
ExecuteRecordUntraced(w) ==
  LET q == req[w] IN
  /\ ~Idle(w) /\ q.at = "record"
  /\ q.target # None /\ Applicable(q.st, q.target)
  /\ AppendObs(q.run, Observe("step_executed", q.from, NextRef(q.st), "none", "connector"))
  /\ Continue(w, "insert", [ApplyTransition(StepDone(q.st), q.target) EXCEPT
                              !.adm = "OPERATION_ALLOWED", !.count = CountOf(q.run)])
  /\ UNCHANGED <<registry, runs, store, calls>>

\* The step is done and the flow has a transition for it.
ExecuteRecord(w) ==
  LET q == req[w] IN
  /\ ~Idle(w) /\ q.at = "record"
  /\ q.target # None
  /\ Applicable(q.st, q.target)
  /\ AppendObs(q.run, Observe("step_executed", q.from, NextRef(q.st), "none",
                IF StepType(q.st) = "connector_action" THEN "connector"
                                                       ELSE "approved_gate"))
  /\ Continue(w, "trace", [ApplyTransition(StepDone(q.st), q.target) EXCEPT
                             !.adm = "OPERATION_ALLOWED", !.count = CountOf(q.run)])
  /\ UNCHANGED <<registry, runs, store, calls>>

\* The flow has none: the run fails, and says so before the 409.
ExecuteNoTransition(w) ==
  LET q == req[w] IN
  /\ ~Idle(w) /\ q.at = "record"
  /\ q.target = None
  /\ AppendObs(q.run, Observe("transition_failed", q.from, NextRef(q.st),
                              q.outcome, "none"))
  /\ Continue(w, "insert", [FailRun(StepDone(q.st)) EXCEPT !.count = CountOf(q.run)])
  /\ UNCHANGED <<registry, runs, store, calls>>

\* The target is a step this run was not started with: 502, clone dropped.
ExecuteLostTarget(w) ==
  LET q == req[w] IN
  /\ ~Idle(w) /\ q.at = "record"
  /\ q.target # None
  /\ ~Applicable(q.st, q.target)
  /\ Respond(w)
  /\ UNCHANGED <<registry, runs, log, store, calls>>

\* Mutant of ExecuteTrace: the trace names the step the clone stands on now.
ExecuteTraceOfClone(w) ==
  LET q == req[w] IN
  /\ ~Idle(w) /\ q.at = "trace"
  /\ AppendObs(q.run, Observe("transition_applied", q.from, NextRef(q.st),
                              q.outcome, q.st.step))
  /\ Continue(w, "insert", [q.st EXCEPT !.count = CountOf(q.run)])
  /\ UNCHANGED <<registry, runs, store, calls>>

ExecuteTrace(w) ==
  LET q == req[w] IN
  /\ ~Idle(w) /\ q.at = "trace"
  /\ AppendObs(q.run, Observe("transition_applied", q.from, NextRef(q.st),
                              q.outcome, q.target))
  /\ Continue(w, "insert", [q.st EXCEPT !.count = CountOf(q.run)])
  /\ UNCHANGED <<registry, runs, store, calls>>

-----------------------------------------------------------------------------
(* POST /contract-runs/{id}/gates/{gate}/resolve *)

\* Mutant of ResolveRead: a gate already resolved is taken too.
ResolveReadAnyGate(w, r, s, decision) ==
  /\ Idle(w) /\ WithinBound(r)
  /\ runs[r] # None
  /\ runs[r].gate # None
  /\ runs[r].gate.step = s
  /\ Serve(w, "decide", r, runs[r], s, decision)
  /\ UNCHANGED <<registry, runs, log, store, calls>>

\* Only the gate the clone waits on can be resolved (409 otherwise).
ResolveRead(w, r, s, decision) ==
  /\ Idle(w) /\ WithinBound(r)
  /\ runs[r] # None
  /\ runs[r].gate # None
  /\ runs[r].gate.status = "waiting_review"
  /\ runs[r].gate.step = s
  /\ Serve(w, "decide", r, runs[r], s, decision)
  /\ UNCHANGED <<registry, runs, log, store, calls>>

Resolved(gate, decision) ==
  [gate EXCEPT !.status = "resolved", !.decision = decision]

\* Mutant of RecordResolution: records the decision of the gate before it.
RecordOldResolution(w, x, gate) ==
  /\ AppendObs(req[w].run, Observe("gate_resolved", gate.step, NextRef(x), "none", "none"))
  /\ Continue(w, "insert", [x EXCEPT !.gate = gate, !.count = CountOf(req[w].run)])

\* The end of both branches: the resolved gate replaces the clone's gate,
\* whatever a transition may have put there, and gate_resolved is recorded.
RecordResolution(w, x, gate) ==
  /\ AppendObs(req[w].run, Observe("gate_resolved", gate.step, NextRef(x),
                                   gate.decision, "none"))
  /\ Continue(w, "insert", [x EXCEPT !.gate = gate, !.count = CountOf(req[w].run)])

\* Mutant of Approve: the run is left waiting for review.
ApproveWaiting(w) ==
  LET x == req[w].st IN
  /\ ~Idle(w) /\ req[w].at = "decide"
  /\ req[w].outcome = "approve"
  /\ RecordResolution(w, [SetStepStatus(x, x.step, "ready") EXCEPT
                            !.nextOp = x.steps[x.step].op,
                            !.adm = "HUMAN_GATE_APPROVED"],
                      Resolved(x.gate, "approve"))
  /\ UNCHANGED <<registry, runs, store, calls>>

\* Approval opens the gated step for execution; it does not execute it.
Approve(w) ==
  LET x == req[w].st IN
  /\ ~Idle(w) /\ req[w].at = "decide"
  /\ req[w].outcome = "approve"
  /\ RecordResolution(w, [SetStepStatus(x, x.step, "ready") EXCEPT
                            !.status = "in_progress",
                            !.nextOp = x.steps[x.step].op,
                            !.adm = "HUMAN_GATE_APPROVED"],
                      Resolved(x.gate, "approve"))
  /\ UNCHANGED <<registry, runs, store, calls>>

RejectTarget(w) ==
  ResolveFlowTransition(registry[req[w].st.contract], req[w].st.step, "reject")

\* Rejection takes the flow's transition.  The code discards the result of
\* applying it: a target the run does not have leaves the clone where it was.
Reject(w) ==
  LET q == req[w]
      x == SetStepStatus(q.st, q.st.step, "blocked")
      t == RejectTarget(w)
  IN
  /\ ~Idle(w) /\ q.at = "decide"
  /\ q.outcome = "reject"
  /\ t # None
  /\ AppendObs(q.run, Observe("transition_applied", q.st.gate.step, NextRef(x),
                              "reject", t))
  /\ req' = [req EXCEPT ![w] =
       [q EXCEPT !.at = "resolved", !.target = t,
                 !.st = [(IF Applicable(x, t) THEN ApplyTransition(x, t) ELSE x)
                           EXCEPT !.adm = "HUMAN_GATE_REJECTED",
                                  !.count = CountOf(q.run)]]]
  /\ UNCHANGED <<registry, runs, store, calls>>

RejectNoTransition(w) ==
  LET q == req[w] IN
  /\ ~Idle(w) /\ q.at = "decide"
  /\ q.outcome = "reject"
  /\ RejectTarget(w) = None
  /\ AppendObs(q.run, Observe("transition_failed", q.st.gate.step, NextRef(q.st),
                              "reject", "none"))
  /\ Continue(w, "insert", [FailRun(q.st) EXCEPT !.count = CountOf(q.run)])
  /\ UNCHANGED <<registry, runs, store, calls>>

\* The second half of a rejection; the gate was on the step in `from`.
RecordReject(w) ==
  /\ ~Idle(w) /\ req[w].at = "resolved"
  /\ RecordResolution(w, req[w].st, Resolved(GateForStep(req[w].from), "reject"))
  /\ UNCHANGED <<registry, runs, store, calls>>

-----------------------------------------------------------------------------
\* The process ends with the requests it serves and starts again: contracts, runs
\* and logs are kept in memory only, snapshots are not.
Restart ==
  /\ Restarts
  /\ registry' = Seeded
  /\ runs' = [r \in RunIds |-> None]
  /\ log' = [r \in RunIds |-> <<>>]
  /\ req' = [w \in Workers |-> None]
  /\ calls' = [r \in RunIds |-> <<>>]
  /\ UNCHANGED store

\* A client sends a request, or a handler in flight takes its next step.
Arrive(w) ==
  \E r \in RunIds :
    \/ \E c \in Contracts, auth \in BOOLEAN : Start(w, r, c, auth)
    \/ EvidenceRead(w, r)
    \/ \E s \in Steps, op \in Ops : ExecuteRead(w, r, s, op)
    \/ \E s \in Steps, decision \in Decisions : ResolveRead(w, r, s, decision)

Handle(w) ==
  \/ Insert(w) \/ PersistRead(w) \/ PersistPut(w) \/ PersistFail(w)
  \/ EvidenceAnswer(w)
  \/ ExecuteDeny(w) \/ ExecuteAdmit(w) \/ ConnectorOk(w) \/ ConnectorErr(w)
  \/ ExecuteRecord(w) \/ ExecuteNoTransition(w) \/ ExecuteLostTarget(w)
  \/ ExecuteTrace(w)
  \/ Approve(w) \/ Reject(w) \/ RejectNoTransition(w) \/ RecordReject(w)

Next == \/ \E c \in Contracts, f \in Submissions : Register(c, f)
        \/ Restart
        \/ \E r \in RunIds : GetNext(r)
        \/ \E w \in Workers : Arrive(w) \/ Handle(w)

Spec == Init /\ [][Next]_vars

-----------------------------------------------------------------------------
(* What holds however the requests interleave *)

\* Every variable has its type.
TypeOK == /\ registry \in [Contracts -> Flow \cup {None}]
          /\ runs \in [RunIds -> RunState \cup {None}]
          /\ log \in [RunIds -> Seq(Obs)]
          /\ store \in [RunIds -> Snapshot \cup {None}]
          /\ req \in [Workers -> Request \cup {None}]
          /\ calls \in [RunIds -> Seq(Call)]

\* Every state of run r that exists: the one in the map and the clones.
Held(r) == {x \in {runs[r]} : x # None}
             \cup {req[w].st : w \in {v \in Workers : ~Idle(v) /\ req[v].run = r}}

\* The current step is one the run was started with, so that the lookups the
\* handlers `expect` to succeed do (GET next does so under the lock of the
\* run map, which a panic would poison); a gate that waits is the gate of the
\* current step, and an approved gate too, so that a decision on one step can
\* never open another.
Coherent(x) ==
  /\ x.steps[x.step] # None
  /\ x.gate # None =>
       /\ x.gate.status = "waiting_review" =>
            x.status = "waiting_review" /\ x.gate.step = x.step /\ StepType(x) = "human_gate"
       /\ x.gate.decision = "approve" => x.gate.step = x.step

RunsCoherent == \A r \in RunIds : \A x \in Held(r) : Coherent(x)

\* Every call that reached a provider was admitted first, for the same step of
\* the same run, and no admission lets two calls through: the observation the
\* handler recorded before the await is still where it was.
CallsAdmitted ==
  \A r \in RunIds : \A i \in DOMAIN calls[r] :
    LET a == calls[r][i].admitted IN
    /\ a \in DOMAIN log[r]
    /\ log[r][a].event = "operation_admitted"
    /\ log[r][a].step = calls[r][i].step
    /\ \A j \in DOMAIN calls[r] : calls[r][j].admitted = a => j = i

Approves(o, s) == o.event = "gate_resolved" /\ o.outcome = "approve" /\ o.step = s

\* No run leaves a gated step by its approve transition unless an approval of
\* that very step was recorded earlier, also when the run was approved,
\* overwritten, rejected or restarted by requests in flight.
ApprovalPrecedesGatedStep ==
  \A r \in RunIds : \A i \in DOMAIN log[r] :
    log[r][i].event = "transition_applied" /\ log[r][i].outcome = "approve" =>
      \E j \in 1..(i - 1) : Approves(log[r][j], log[r][i].step)

\* Observation o accounts for a run having ended with this status.
TerminalSteps ==
  {s \in Steps : \E f \in Submissions \cup ({Seeded[c] : c \in Contracts} \ {None}) :
                   HasStep(f, s) /\ f.steps[s].type = "terminal"}

Accounts(o, status) ==
  \/ o.event = "transition_applied"
     /\ (o.detail = status \/ (status = "completed" /\ o.detail \in TerminalSteps))
  \/ o.event = "transition_failed" /\ status = "failed"

\* A status that says a run ended comes with the observation that ended it,
\* wherever the two are seen together: in the map, in a persisted snapshot and
\* in the answer to an evidence request that reads them one after the other.
EndIsRecorded ==
  \A r \in RunIds :
    /\ runs[r] # None /\ runs[r].status \in Terminals =>
         \E i \in DOMAIN log[r] : Accounts(log[r][i], runs[r].status)
    /\ store[r] # None /\ store[r].status \in Terminals =>
         \E i \in DOMAIN store[r].obs : Accounts(store[r].obs[i], store[r].status)
    /\ \A w \in Workers :
         ~Idle(w) /\ req[w].at = "evidence" /\ Evidence(w).status \in Terminals =>
           \E i \in DOMAIN Evidence(w).obs : Accounts(Evidence(w).obs[i], Evidence(w).status)

=============================================================================
