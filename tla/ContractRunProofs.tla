-------------------------- MODULE ContractRunProofs --------------------------
(***************************************************************************)
(* Proofs about ContractRun, for any runs, contracts, flows and workers.   *)
(***************************************************************************)
EXTENDS ContractRun, TLAPS

-----------------------------------------------------------------------------
(* The helpers of the handlers stay inside their types *)

LEMMA ResolveType ==
  ASSUME NEW f \in Flow, NEW s \in Steps, NEW o \in Outcomes
  PROVE  ResolveFlowTransition(f, s, o) \in Target \cup {None}
BY DEF Flow, FlowStep, ResolveFlowTransition, HasStep, PickNextTarget, Outcomes

LEMMA AdmissionType ==
  ASSUME NEW x, NEW f
  PROVE  Admission(x, f) \in Reasons
BY DEF Admission, Reasons, Allowed, GateVerdict

LEMMA StepsFromFlowType ==
  ASSUME NEW f \in Flow
  PROVE  StepsFromFlow(f) \in [Steps -> ContractStep \cup {None}]
<1> SUFFICES ASSUME NEW s \in Steps
             PROVE  StepsFromFlow(f)[s] \in ContractStep \cup {None}
  BY DEF StepsFromFlow
<1>1. CASE HasStep(f, s)
  <2>1. f.steps[s] \in FlowStep
    BY <1>1 DEF HasStep, Flow
  <2>2. QED BY <2>1, <1>1 DEF StepsFromFlow, FlowStep, ContractStep, StepStatus
<1>2. CASE ~HasStep(f, s)
  BY <1>2 DEF StepsFromFlow
<1> QED BY <1>1, <1>2

LEMMA NewRunType ==
  ASSUME NEW c \in Contracts, NEW f \in Flow, NEW auth \in BOOLEAN, ValidFlow(f)
  PROVE  /\ NewRun(c, f, auth) \in RunState
         /\ NewRun(c, f, auth).step = f.entry
         /\ NewRun(c, f, auth).steps[f.entry] # None
         /\ NewRun(c, f, auth).gate = None
<1> DEFINE x == [contract |-> c, auth |-> auth, status |-> "accepted",
                 step |-> f.entry, nextOp |-> f.steps[f.entry].op,
                 steps |-> StepsFromFlow(f), gate |-> None,
                 adm |-> "OPERATION_ALLOWED", completed |-> 0, count |-> 0]
<1>1. f.entry \in Steps /\ HasStep(f, f.entry) /\ f.steps[f.entry] \in FlowStep
  BY DEF ValidFlow, EntryExists, Flow, HasStep
<1>2. StepsFromFlow(f) \in [Steps -> ContractStep \cup {None}]
  BY StepsFromFlowType
<1>3. StepsFromFlow(f)[f.entry] # None
  BY <1>1, RunAbsenceAssumption DEF StepsFromFlow, ContractStep, FlowStep, StepStatus
<1>4. x \in RunState
  BY <1>1, <1>2 DEF RunState, RunStatus, Reasons, Allowed, FlowStep
<1>5. NewRun(c, f, auth) = [x EXCEPT !.adm = Admission(x, f)]
  BY DEF NewRun
<1> HIDE DEF x
<1>6. Admission(x, f) \in Reasons
  BY AdmissionType
<1>7. NewRun(c, f, auth) \in RunState
  BY <1>4, <1>5, <1>6 DEF RunState
<1> QED BY <1>3, <1>5, <1>7 DEF RunState, x

LEMMA SetStepStatusType ==
  ASSUME NEW x \in RunState, NEW s \in Steps, x.steps[s] # None,
         NEW status \in StepStatus
  PROVE  /\ SetStepStatus(x, s, status) \in RunState
         /\ SetStepStatus(x, s, status) =
              [x EXCEPT !.steps = [x.steps EXCEPT ![s] = [x.steps[s] EXCEPT !.status = status]]]
         /\ \A t \in Steps : SetStepStatus(x, s, status).steps[t] # None <=> x.steps[t] # None
         /\ \A t \in Steps : x.steps[t] # None =>
              SetStepStatus(x, s, status).steps[t].type = x.steps[t].type
<1>1. x.steps \in [Steps -> ContractStep \cup {None}] /\ x.steps[s] \in ContractStep
  BY DEF RunState
<1> DEFINE step == [x.steps[s] EXCEPT !.status = status]
<1>2. step \in ContractStep /\ step.type = x.steps[s].type
  BY <1>1 DEF ContractStep
<1>3. step # None
  BY <1>2, RunAbsenceAssumption
<1>4. SetStepStatus(x, s, status) = [x EXCEPT !.steps = [x.steps EXCEPT ![s] = step]]
  BY DEF SetStepStatus
<1> HIDE DEF step
<1>5. [x.steps EXCEPT ![s] = step] \in [Steps -> ContractStep \cup {None}]
  BY <1>1, <1>2
<1> QED BY <1>1, <1>2, <1>3, <1>4, <1>5 DEF RunState, step

LEMMA StatusAlone ==
  ASSUME NEW x \in RunState, NEW s \in Steps, x.steps[s] # None,
         NEW status \in StepStatus, NEW z, z = SetStepStatus(x, s, status)
  PROVE  /\ z \in RunState /\ z.steps[s] # None
         /\ z.step = x.step /\ z.contract = x.contract /\ z.gate = x.gate
<1>1. /\ z \in RunState
      /\ z = [x EXCEPT !.steps = [x.steps EXCEPT ![s] = [x.steps[s] EXCEPT !.status = status]]]
      /\ z.steps[s] # None
  BY SetStepStatusType
<1> QED BY <1>1 DEF RunState

\* Entering a step the run has: the state has its type, stands on the step,
\* and its gate is the one of that step or none.
LEMMA EnterStepType ==
  ASSUME NEW x \in RunState, NEW s \in Steps, x.steps[s] # None
  PROVE  /\ EnterStep(x, s) \in RunState
         /\ Coherent(EnterStep(x, s))
         /\ EnterStep(x, s).gate \in {None, GateForStep(s)}
         /\ \A t \in Steps : x.steps[t] # None => EnterStep(x, s).steps[t] # None
<1> DEFINE there == [x EXCEPT !.step = s, !.gate = None, !.nextOp = x.steps[s].op]
<1>1. x.steps[s] \in ContractStep
  BY DEF RunState
<1>2. /\ there \in RunState
      /\ there.step = s /\ there.gate = None /\ there.steps = x.steps
  BY <1>1 DEF RunState, ContractStep
<1> HIDE DEF there
<1>3. GateForStep(s) \in Gate
  BY DEF GateForStep, Gate
<1>4. CASE x.steps[s].type = "human_gate"
  <2> DEFINE y == SetStepStatus(there, s, "waiting_review")
  <2>1. /\ y \in RunState /\ y.step = s /\ y.steps[s] # None
        /\ y.steps[s].type = "human_gate"
        /\ \A t \in Steps : x.steps[t] # None => y.steps[t] # None
    BY <1>2, <1>4, SetStepStatusType DEF StepStatus, RunState
  <2>2. EnterStep(x, s) = [y EXCEPT !.status = "waiting_review", !.gate = GateForStep(s)]
    BY <1>4 DEF EnterStep, there
  <2> HIDE DEF y
  <2>3. EnterStep(x, s) \in RunState
    BY <2>1, <2>2, <1>3 DEF RunState, RunStatus
  <2>4. /\ EnterStep(x, s).step = s
        /\ EnterStep(x, s).steps = y.steps
        /\ EnterStep(x, s).gate = GateForStep(s)
        /\ EnterStep(x, s).status = "waiting_review"
    BY <2>1, <2>2 DEF RunState
  <2>5. Coherent(EnterStep(x, s))
    BY <2>1, <2>4 DEF Coherent, GateForStep, StepType
  <2> QED BY <2>1, <2>3, <2>4, <2>5
<1>5. CASE x.steps[s].type \in {"connector_action", "deterministic_action"}
  <2> DEFINE y == SetStepStatus(there, s, "ready")
  <2>1. /\ y \in RunState /\ y.step = s /\ y.steps[s] # None /\ y.gate = None
        /\ \A t \in Steps : x.steps[t] # None => y.steps[t] # None
    BY <1>2, SetStepStatusType DEF StepStatus, RunState
  <2>2. EnterStep(x, s) = [y EXCEPT !.status = "in_progress"]
    BY <1>5 DEF EnterStep, there
  <2> HIDE DEF y
  <2> QED BY <2>1, <2>2 DEF RunState, RunStatus, Coherent
<1>6. CASE x.steps[s].type = "terminal"
  <2> DEFINE y == SetStepStatus(there, s, "completed")
  <2>1. /\ y \in RunState /\ y.step = s /\ y.steps[s] # None /\ y.gate = None
        /\ \A t \in Steps : x.steps[t] # None => y.steps[t] # None
    BY <1>2, SetStepStatusType DEF StepStatus, RunState
  <2>2. EnterStep(x, s) = [y EXCEPT !.status = "completed", !.nextOp = None]
    BY <1>6 DEF EnterStep, there
  <2> HIDE DEF y
  <2> QED BY <2>1, <2>2 DEF RunState, RunStatus, Terminals, Coherent
<1> QED BY <1>1, <1>4, <1>5, <1>6 DEF ContractStep, StepTypes

LEMMA ApplyTransitionType ==
  ASSUME NEW x \in RunState, x.steps[x.step] # None,
         NEW t \in Target, Applicable(x, t)
  PROVE  /\ ApplyTransition(x, t) \in RunState
         /\ Coherent(ApplyTransition(x, t))
         /\ ApplyTransition(x, t).gate # None =>
              ApplyTransition(x, t).gate.decision = "none"
<1>1. CASE t \in Steps
  BY <1>1, EnterStepType DEF ApplyTransition, Applicable, GateForStep
<1>2. CASE t \notin Steps
  <2>1. t \in Terminals
    BY <1>2 DEF Target
  <2>2. ApplyTransition(x, t) = [x EXCEPT !.status = t, !.nextOp = None, !.gate = None]
    BY <1>2 DEF ApplyTransition
  <2> QED BY <2>1, <2>2 DEF RunState, RunStatus, Coherent
<1> QED BY <1>1, <1>2

LEMMA TransitionKeepsContract ==
  ASSUME NEW x \in RunState, NEW t \in Target, Applicable(x, t)
  PROVE  ApplyTransition(x, t).contract = x.contract
<1>1. CASE t \in Steps
  <2>1. x.steps[t].type \in StepTypes
    BY <1>1 DEF Applicable, RunState, ContractStep
  <2>2. ApplyTransition(x, t) = EnterStep(x, t)
    BY <1>1 DEF ApplyTransition
  <2>3. CASE x.steps[t].type = "human_gate"
    BY <2>2, <2>3 DEF EnterStep, SetStepStatus, RunState
  <2>4. CASE x.steps[t].type \in {"connector_action", "deterministic_action"}
    BY <2>2, <2>4 DEF EnterStep, SetStepStatus, RunState
  <2>5. CASE x.steps[t].type = "terminal"
    BY <2>2, <2>5 DEF EnterStep, SetStepStatus, RunState
  <2> QED BY <2>1, <2>3, <2>4, <2>5 DEF StepTypes
<1>2. CASE t \notin Steps
  BY <1>2 DEF ApplyTransition, RunState
<1> QED BY <1>1, <1>2

LEMMA FailRunType ==
  ASSUME NEW x \in RunState, x.steps[x.step] # None
  PROVE  FailRun(x) \in RunState /\ Coherent(FailRun(x)) /\ FailRun(x).gate = None
BY DEF FailRun, RunState, RunStatus, Terminals, Coherent

LEMMA StepDoneType ==
  ASSUME NEW x \in RunState, x.steps[x.step] # None
  PROVE  /\ StepDone(x) \in RunState
         /\ StepDone(x).step = x.step
         /\ \A t \in Steps : StepDone(x).steps[t] # None <=> x.steps[t] # None
<1>1. x.step \in Steps
  BY DEF RunState
<1> DEFINE y == SetStepStatus(x, x.step, "completed")
<1>2. /\ y \in RunState /\ y.step = x.step
      /\ \A t \in Steps : y.steps[t] # None <=> x.steps[t] # None
  BY <1>1, SetStepStatusType DEF StepStatus, RunState
<1>3. StepDone(x) = [y EXCEPT !.completed = y.completed + 1]
  BY DEF StepDone
<1> HIDE DEF y
<1> QED BY <1>2, <1>3 DEF RunState

\* The fields every handler writes last carry no part of the coherence.
LEMMA CountKeeps ==
  ASSUME NEW x \in RunState, Coherent(x), NEW n \in Nat
  PROVE  [x EXCEPT !.count = n] \in RunState /\ Coherent([x EXCEPT !.count = n])
BY DEF RunState, Coherent, StepType

LEMMA AdmissionKeeps ==
  ASSUME NEW x \in RunState, Coherent(x), NEW a \in Reasons
  PROVE  [x EXCEPT !.adm = a] \in RunState /\ Coherent([x EXCEPT !.adm = a])
BY DEF RunState, Coherent, StepType

LEMMA BookkeepingKeeps ==
  ASSUME NEW x \in RunState, Coherent(x), NEW a \in Reasons, NEW n \in Nat
  PROVE  /\ [x EXCEPT !.adm = a, !.count = n] \in RunState
         /\ Coherent([x EXCEPT !.adm = a, !.count = n])
BY DEF RunState, Coherent, StepType

-----------------------------------------------------------------------------
(* The inductive invariant of types and coherence.  A held state names a   *)
(* registered contract, a request about to decide holds an open gate, and  *)
(* one about to trace a transition knows its target.                       *)

Sound(x) == Coherent(x) /\ registry[x.contract] # None

RequestSound(q) ==
  /\ Sound(q.st)
  /\ q.at = "decide" => q.st.gate # None /\ q.st.gate.status = "waiting_review"
  /\ q.at = "trace" => q.target # None

RunsOK == /\ runs \in [RunIds -> RunState \cup {None}]
          /\ \A r \in RunIds : runs[r] # None => Sound(runs[r])

ReqOK == /\ req \in [Workers -> Request \cup {None}]
         /\ \A w \in Workers : ~Idle(w) => RequestSound(req[w])

IInv == TypeOK /\ RunsOK /\ ReqOK

-----------------------------------------------------------------------------
(* What a step does to one map at a time *)

LEMMA SetRequest ==
  ASSUME ReqOK, NEW w \in Workers, NEW q \in Request, RequestSound(q),
         req' = [req EXCEPT ![w] = q], registry' = registry
  PROVE  ReqOK'
<1> SUFFICES ASSUME NEW v \in Workers, ~Idle(v)'
             PROVE  RequestSound(req[v])'
  BY DEF ReqOK
<1>1. CASE v = w
  BY <1>1 DEF ReqOK, RequestSound, Sound
<1>2. CASE v # w
  BY <1>2 DEF ReqOK, RequestSound, Sound, Idle
<1> QED BY <1>1, <1>2

LEMMA RespondOK ==
  ASSUME ReqOK, NEW w \in Workers, Respond(w), registry' = registry
  PROVE  ReqOK'
<1> SUFFICES ASSUME NEW v \in Workers, ~Idle(v)'
             PROVE  RequestSound(req[v])'
  BY DEF ReqOK, Respond
<1>1. v # w
  BY DEF ReqOK, Respond, Idle
<1> QED BY <1>1 DEF ReqOK, RequestSound, Sound, Idle, Respond

LEMMA ContinueOK ==
  ASSUME ReqOK, NEW w \in Workers, ~Idle(w),
         NEW point \in Points \ {"decide"}, point = "trace" => req[w].target # None,
         NEW x \in RunState, Sound(x),
         Continue(w, point, x), registry' = registry
  PROVE  ReqOK'
<1>1. req[w] \in Request
  BY DEF ReqOK, Idle
<1> DEFINE q == [req[w] EXCEPT !.at = point, !.st = x]
<1>2. q \in Request /\ RequestSound(q)
  BY <1>1 DEF Request, RequestSound
<1>3. req' = [req EXCEPT ![w] = q]
  BY DEF Continue
<1> HIDE DEF q
<1> QED BY <1>2, <1>3, SetRequest

LEMMA ServeOK ==
  ASSUME ReqOK, NEW w \in Workers, NEW r \in RunIds,
         NEW point \in Points \ {"trace"},
         NEW x \in RunState, Sound(x),
         point = "decide" => x.gate # None /\ x.gate.status = "waiting_review",
         NEW s \in Steps, NEW outcome \in Outcomes \cup {"none"},
         Serve(w, point, r, x, s, outcome), registry' = registry
  PROVE  ReqOK'
<1> DEFINE q == [at |-> point, run |-> r, st |-> x, from |-> s,
                 outcome |-> outcome, target |-> None, snap |-> <<>>]
<1>1. q \in Request /\ RequestSound(q)
  BY DEF Request, RequestSound
<1>2. req' = [req EXCEPT ![w] = q]
  BY DEF Serve
<1> HIDE DEF q
<1> QED BY <1>1, <1>2, SetRequest

LEMMA AppendOK ==
  ASSUME log \in [RunIds -> Seq(Obs)], NEW r \in RunIds, NEW obs \in Obs,
         AppendObs(r, obs)
  PROVE  log' \in [RunIds -> Seq(Obs)]
BY DEF AppendObs

LEMMA ObserveType ==
  ASSUME NEW event \in {"started", "operation_admitted", "step_executed",
                        "transition_applied", "transition_failed", "gate_resolved"},
         NEW s \in Steps, NEW ref \in Nat, NEW outcome \in Outcomes \cup {"none"},
         NEW detail \in Target \cup Reasons \cup {"connector", "approved_gate", "none"}
  PROVE  Observe(event, s, ref, outcome, detail) \in Obs
BY DEF Observe, Obs

LEMMA CountType ==
  ASSUME log \in [RunIds -> Seq(Obs)], NEW r \in RunIds
  PROVE  CountOf(r) \in Nat
BY DEF CountOf

\* What IInv says of a request in flight, for the steps that follow.
LEMMA InFlight ==
  ASSUME IInv, NEW w \in Workers, ~Idle(w)
  PROVE  /\ req[w] \in Request /\ RequestSound(req[w])
         /\ req[w].run \in RunIds /\ req[w].st \in RunState
         /\ req[w].from \in Steps /\ req[w].target \in Target \cup {None}
         /\ req[w].outcome \in Outcomes \cup {"none"}
         /\ Coherent(req[w].st)
         /\ req[w].st.step \in Steps /\ req[w].st.count \in Nat
         /\ registry[req[w].st.contract] \in Flow
BY DEF IInv, TypeOK, ReqOK, Idle, Request, RequestSound, Sound, RunState

LEMMA InMap ==
  ASSUME IInv, NEW r \in RunIds, runs[r] # None
  PROVE  /\ runs[r] \in RunState /\ Sound(runs[r]) /\ Coherent(runs[r])
         /\ registry[runs[r].contract] \in Flow
BY DEF IInv, TypeOK, RunsOK, Sound, RunState

-----------------------------------------------------------------------------
(* Every action preserves the invariant *)

LEMMA InitSound == Init => IInv
<1> SUFFICES ASSUME Init PROVE IInv
  OBVIOUS
<1>1. TypeOK
  BY RunConstantsAssumption DEF Init, TypeOK
<1>2. RunsOK /\ ReqOK
  BY <1>1 DEF Init, TypeOK, RunsOK, ReqOK, Idle
<1> QED BY <1>1, <1>2 DEF IInv

LEMMA RegisterSound ==
  ASSUME IInv, NEW c \in Contracts, NEW f \in Submissions, Register(c, f)
  PROVE  IInv'
<1>1. f \in Flow /\ f # None
  BY RunConstantsAssumption, AbsenceAssumption
<1>2. TypeOK'
  BY <1>1 DEF IInv, TypeOK, Register
<1>3. \A d \in Contracts : registry[d] # None => registry'[d] # None
  BY <1>1 DEF IInv, TypeOK, Register
<1>4. RunsOK'
  BY <1>3 DEF IInv, RunsOK, Sound, Register, RunState
<1>5. ReqOK'
  <2> SUFFICES ASSUME NEW w \in Workers, ~Idle(w)
               PROVE  RequestSound(req[w])'
    BY DEF IInv, ReqOK, Register, Idle
  <2> QED BY <1>3, InFlight DEF RequestSound, Sound, Register, RunState
<1> QED BY <1>2, <1>4, <1>5 DEF IInv

\* Actions that leave the registry and the run map alone.
LEMMA HandlerSound ==
  ASSUME IInv, UNCHANGED <<registry, runs>>, ReqOK',
         log' \in [RunIds -> Seq(Obs)],
         store' \in [RunIds -> Snapshot \cup {None}],
         calls' \in [RunIds -> Seq(Call)]
  PROVE  IInv'
BY DEF IInv, TypeOK, RunsOK, ReqOK, Sound

LEMMA StartSound ==
  ASSUME IInv, NEW w \in Workers, NEW r \in RunIds, NEW c \in Contracts,
         NEW auth \in BOOLEAN, Start(w, r, c, auth)
  PROVE  IInv'
<1> DEFINE x == NewRun(c, registry[c], auth)
           y == [x EXCEPT !.count = CountOf(r)]
<1>1. registry[c] \in Flow /\ registry[c] # None /\ ValidFlow(registry[c])
  BY DEF IInv, TypeOK, Start
<1>2. /\ x \in RunState /\ Coherent(x) /\ x.contract = c /\ x.step \in Steps
      /\ x.gate = None
  BY <1>1, NewRunType DEF Coherent, RunState, NewRun
<1>3. /\ AppendObs(r, Observe("started", x.step, 0, "none", "none"))
      /\ Serve(w, "insert", r, y, x.step, "none")
      /\ UNCHANGED <<registry, runs, store, calls>>
  BY DEF Start
<1> HIDE DEF x
<1>4. y \in RunState /\ Coherent(y) /\ y.contract = c
  <2>1. CountOf(r) \in Nat
    BY CountType DEF IInv, TypeOK
  <2> QED BY <1>2, <2>1, CountKeeps DEF RunState
<1> HIDE DEF y
<1>5. ReqOK'
  BY <1>1, <1>2, <1>3, <1>4, ServeOK DEF IInv, Points, Sound
<1>6. log' \in [RunIds -> Seq(Obs)]
  <2>1. Observe("started", x.step, 0, "none", "none") \in Obs
    BY <1>2, ObserveType
  <2> QED BY <1>3, <2>1, AppendOK DEF IInv, TypeOK
<1> QED BY <1>3, <1>5, <1>6, HandlerSound DEF IInv, TypeOK

LEMMA InsertSound ==
  ASSUME IInv, NEW w \in Workers, Insert(w)
  PROVE  IInv'
<1>1. ~Idle(w) /\ UNCHANGED <<registry, log, store, calls>>
  BY DEF Insert
<1>2. /\ req[w].run \in RunIds /\ req[w].st \in RunState /\ Sound(req[w].st)
  BY <1>1, InFlight DEF RequestSound
<1>3. RunsOK'
  BY <1>1, <1>2 DEF Insert, IInv, RunsOK, Sound
<1>4. ReqOK'
  BY <1>1, <1>2, ContinueOK DEF Insert, IInv, Points
<1> QED BY <1>1, <1>3, <1>4 DEF IInv, TypeOK, RunsOK, ReqOK

LEMMA PersistSound ==
  ASSUME IInv, NEW w \in Workers, PersistRead(w) \/ PersistPut(w) \/ PersistFail(w)
  PROVE  IInv'
<1>1. ~Idle(w) /\ UNCHANGED <<registry, runs, log, calls>>
  BY DEF PersistRead, PersistPut, PersistFail
<1>2. /\ req[w] \in Request /\ RequestSound(req[w]) /\ req[w].run \in RunIds
      /\ req[w].st \in RunState
  BY <1>1, InFlight
<1>3. CASE PersistRead(w)
  <2> DEFINE q == [req[w] EXCEPT !.at = "put", !.snap = log[req[w].run]]
  <2>1. q \in Request /\ RequestSound(q)
    BY <1>2 DEF IInv, TypeOK, Request, Points, RequestSound
  <2>2. req' = [req EXCEPT ![w] = q]
    BY <1>3 DEF PersistRead
  <2> HIDE DEF q
  <2>3. ReqOK'
    BY <1>1, <2>1, <2>2, SetRequest DEF IInv
  <2> QED BY <1>1, <1>3, <2>3, HandlerSound DEF PersistRead, IInv, TypeOK
<1>4. CASE PersistPut(w)
  <2>1. ReqOK'
    BY <1>1, <1>4, RespondOK DEF PersistPut, IInv
  <2>2. [status |-> EvidenceStatus(req[w].st), obs |-> req[w].snap] \in Snapshot
    BY <1>2 DEF Snapshot, Request, RunState, EvidenceStatus, RunStatus
  <2>3. store' \in [RunIds -> Snapshot \cup {None}]
    BY <1>2, <1>4, <2>2 DEF PersistPut, IInv, TypeOK
  <2> QED BY <1>1, <2>1, <2>3, HandlerSound DEF IInv, TypeOK
<1>5. CASE PersistFail(w)
  <2>1. ReqOK'
    BY <1>1, <1>5, RespondOK DEF PersistFail, IInv
  <2> QED BY <1>1, <1>5, <2>1, HandlerSound DEF PersistFail, IInv, TypeOK
<1> QED BY <1>3, <1>4, <1>5

LEMMA GetNextSound ==
  ASSUME IInv, NEW r \in RunIds, GetNext(r)
  PROVE  IInv'
<1> DEFINE a == Admission(runs[r], registry[runs[r].contract])
           x == [runs[r] EXCEPT !.adm = a]
<1>1. runs[r] \in RunState /\ Sound(runs[r])
  BY InMap DEF GetNext
<1>2. a \in Reasons
  BY AdmissionType
<1>3. runs' = [runs EXCEPT ![r] = x] /\ UNCHANGED <<registry, log, store, req, calls>>
  BY DEF GetNext
<1> HIDE DEF a
<1>4. x \in RunState /\ Coherent(x) /\ x.contract = runs[r].contract
  BY <1>1, <1>2, AdmissionKeeps DEF Sound, RunState
<1> HIDE DEF x
<1>5. RunsOK'
  BY <1>1, <1>3, <1>4 DEF IInv, RunsOK, Sound
<1>6. ReqOK'
  BY <1>3 DEF IInv, ReqOK, RequestSound, Sound, Idle
<1> QED BY <1>3, <1>5, <1>6 DEF IInv, TypeOK, RunsOK

LEMMA AdmitSound ==
  ASSUME IInv, NEW w \in Workers, ExecuteDeny(w) \/ ExecuteAdmit(w)
  PROVE  IInv'
<1>1. ~Idle(w) /\ UNCHANGED <<registry, runs, store, calls>>
  BY DEF ExecuteDeny, ExecuteAdmit
<1> DEFINE q == req[w]
<1>2. /\ q \in Request /\ RequestSound(q) /\ q.run \in RunIds /\ q.st \in RunState
      /\ Coherent(q.st) /\ q.st.step \in Steps /\ q.st.count \in Nat
      /\ registry[q.st.contract] \in Flow
  BY <1>1, InFlight
<1> HIDE DEF q
<1>3. CASE ExecuteDeny(w)
  <2>1. ReqOK'
    BY <1>1, <1>3, RespondOK DEF ExecuteDeny, IInv
  <2> QED BY <1>1, <1>3, <2>1, HandlerSound DEF ExecuteDeny, IInv, TypeOK
<1>4. CASE ExecuteAdmit(w)
  <2>1. log' \in [RunIds -> Seq(Obs)]
    <3>1. ReqAdmission(w) \in Reasons /\ NextRef(q.st) \in Nat
      BY <1>2, AdmissionType DEF ReqAdmission, NextRef
    <3>2. Observe("operation_admitted", q.st.step, NextRef(q.st), "none",
                  ReqAdmission(w)) \in Obs
      BY <1>2, <3>1, ObserveType
    <3> QED BY <1>2, <1>4, <3>2, AppendOK DEF ExecuteAdmit, IInv, TypeOK, q
  <2>2. Admitted(w) \in Request /\ Sound(Admitted(w).st)
    <3> DEFINE x == [q.st EXCEPT !.adm = ReqAdmission(w), !.count = CountOf(q.run)]
               t == ResolveFlowTransition(registry[q.st.contract], q.st.step,
                                          ExecuteOutcome(q.st))
    <3>1. ReqAdmission(w) \in Reasons /\ CountOf(q.run) \in Nat
      BY <1>2, AdmissionType, CountType DEF ReqAdmission, IInv, TypeOK
    <3>2. x \in RunState /\ Coherent(x) /\ x.contract = q.st.contract
      BY <1>2, <3>1, BookkeepingKeeps DEF RunState
    <3>3. ExecuteOutcome(q.st) \in Outcomes
      BY DEF ExecuteOutcome, Outcomes
    <3>4. t \in Target \cup {None}
      BY <1>2, <3>3, ResolveType
    <3>5. Admitted(w) = [q EXCEPT !.st = x, !.outcome = ExecuteOutcome(q.st), !.target = t]
      BY DEF Admitted, q
    <3> HIDE DEF x, t
    <3> QED BY <1>2, <3>2, <3>3, <3>4, <3>5 DEF Request, RequestSound, Sound
  <2>3. ASSUME NEW point \in {"record", "call"},
               req' = [req EXCEPT ![w] = [Admitted(w) EXCEPT !.at = point]]
        PROVE  ReqOK'
    <3> DEFINE n == [Admitted(w) EXCEPT !.at = point]
    <3>1. n \in Request /\ RequestSound(n)
      BY <2>2 DEF Request, RequestSound, Points
    <3>2. req' = [req EXCEPT ![w] = n]
      BY <2>3
    <3> HIDE DEF n
    <3> QED BY <1>1, <3>1, <3>2, SetRequest DEF IInv
  <2>4. ReqOK'
    BY <1>1, <1>4, <2>3, RespondOK DEF ExecuteAdmit, IInv
  <2> QED BY <1>1, <2>1, <2>4, HandlerSound DEF IInv, TypeOK
<1> QED BY <1>3, <1>4

LEMMA ConnectorSound ==
  ASSUME IInv, NEW w \in Workers, ConnectorOk(w) \/ ConnectorErr(w)
  PROVE  IInv'
<1>1. ~Idle(w) /\ UNCHANGED <<registry, runs, log, store>>
  BY DEF ConnectorOk, ConnectorErr
<1>2. /\ RequestSound(req[w]) /\ req[w].run \in RunIds /\ req[w].st \in RunState
      /\ req[w].st.step \in Steps /\ req[w].st.count \in Nat
  BY <1>1, InFlight
<1>3. calls' \in [RunIds -> Seq(Call)]
  <2> DEFINE call == [step |-> req[w].st.step, admitted |-> req[w].st.count]
             r    == req[w].run
  <2>1. call \in Call /\ r \in RunIds
    BY <1>2 DEF Call
  <2>2. calls \in [RunIds -> Seq(Call)]
    BY DEF IInv, TypeOK
  <2>3. CASE Deliver(w)
    <3>1. calls' = [calls EXCEPT ![r] = Append(calls[r], call)]
      BY <2>3 DEF Deliver
    <3> HIDE DEF call, r
    <3> QED BY <2>1, <2>2, <3>1
  <2>4. CASE UNCHANGED calls
    BY <2>2, <2>4
  <2> QED BY <2>3, <2>4 DEF ConnectorOk, ConnectorErr
<1>4. ReqOK'
  <2>1. CASE ConnectorOk(w)
    BY <1>1, <1>2, <2>1, ContinueOK DEF ConnectorOk, IInv, Points, RequestSound
  <2>2. CASE ConnectorErr(w)
    BY <1>1, <2>2, RespondOK DEF ConnectorErr, IInv
  <2> QED BY <2>1, <2>2
<1> QED BY <1>1, <1>3, <1>4, HandlerSound DEF IInv, TypeOK

\* The clone after its step and the transition the flow gave.
LEMMA StepTaken ==
  ASSUME NEW x \in RunState, Coherent(x), NEW t \in Target, Applicable(x, t),
         NEW n \in Nat
  PROVE  LET y == [ApplyTransition(StepDone(x), t) EXCEPT
                     !.adm = "OPERATION_ALLOWED", !.count = n]
         IN y \in RunState /\ Coherent(y) /\ y.contract = x.contract
<1> DEFINE d == StepDone(x)
           e == ApplyTransition(d, t)
<1>1. x.steps[x.step] # None /\ x.step \in Steps
  BY DEF Coherent, RunState
<1>2. d \in RunState /\ d.steps[d.step] # None /\ Applicable(d, t)
  BY <1>1, StepDoneType DEF Applicable
<1> HIDE DEF d
<1>3. e \in RunState /\ Coherent(e)
  BY <1>2, ApplyTransitionType
<1>4. e.contract = x.contract
  <2>1. d.contract = x.contract
    BY DEF d, StepDone, SetStepStatus, RunState
  <2>2. e.contract = d.contract
    BY <1>2, TransitionKeepsContract
  <2> QED BY <2>1, <2>2
<1> HIDE DEF e
<1>5. "OPERATION_ALLOWED" \in Reasons
  BY DEF Reasons
<1>6. [e EXCEPT !.adm = "OPERATION_ALLOWED", !.count = n].contract = e.contract
  BY <1>3 DEF RunState
<1> QED BY <1>3, <1>4, <1>5, <1>6, BookkeepingKeeps DEF e, d

LEMMA RecordSound ==
  ASSUME IInv, NEW w \in Workers,
         \/ ExecuteRecord(w) \/ ExecuteNoTransition(w)
         \/ ExecuteLostTarget(w) \/ ExecuteTrace(w)
  PROVE  IInv'
<1> DEFINE q == req[w]
<1>1. ~Idle(w) /\ UNCHANGED <<registry, runs, store, calls>>
  BY DEF ExecuteRecord, ExecuteNoTransition, ExecuteLostTarget, ExecuteTrace
<1>2. /\ q \in Request /\ RequestSound(q) /\ q.run \in RunIds /\ q.st \in RunState
      /\ q.from \in Steps /\ q.target \in Target \cup {None}
      /\ q.outcome \in Outcomes \cup {"none"}
      /\ Coherent(q.st) /\ q.st.step \in Steps /\ NextRef(q.st) \in Nat
      /\ registry[q.st.contract] # None
  BY <1>1, InFlight DEF NextRef, RequestSound, Sound
<1>3. CountOf(q.run) \in Nat
  BY <1>2, CountType DEF IInv, TypeOK
<1>4. CASE ExecuteRecord(w)
  <2> DEFINE y == [ApplyTransition(StepDone(q.st), q.target) EXCEPT
                     !.adm = "OPERATION_ALLOWED", !.count = CountOf(q.run)]
             d == IF StepType(q.st) = "connector_action" THEN "connector"
                                                         ELSE "approved_gate"
  <2>1. q.target # None /\ Applicable(q.st, q.target)
    BY <1>4 DEF ExecuteRecord
  <2>2. y \in RunState /\ Sound(y)
    BY <1>2, <1>3, <2>1, StepTaken DEF Sound
  <2>3. Observe("step_executed", q.from, NextRef(q.st), "none", d) \in Obs
    BY <1>2, ObserveType
  <2>4. /\ AppendObs(q.run, Observe("step_executed", q.from, NextRef(q.st), "none", d))
        /\ Continue(w, "trace", y)
    BY <1>4 DEF ExecuteRecord
  <2> HIDE DEF y, d
  <2>5. log' \in [RunIds -> Seq(Obs)]
    BY <1>2, <2>3, <2>4, AppendOK DEF IInv, TypeOK
  <2>6. ReqOK'
    BY <1>1, <2>1, <2>2, <2>4, ContinueOK DEF IInv, Points
  <2> QED BY <1>1, <2>5, <2>6, HandlerSound DEF IInv, TypeOK
<1>5. CASE ExecuteNoTransition(w)
  <2> DEFINE f == FailRun(StepDone(q.st))
             y == [f EXCEPT !.count = CountOf(q.run)]
  <2>1. f \in RunState /\ Coherent(f) /\ f.contract = q.st.contract
    <3>1. /\ StepDone(q.st) \in RunState
          /\ StepDone(q.st).steps[StepDone(q.st).step] # None
          /\ StepDone(q.st).contract = q.st.contract
      BY <1>2, StepDoneType DEF Coherent, StepDone, SetStepStatus, RunState
    <3> QED BY <3>1, FailRunType DEF FailRun, RunState
  <2> HIDE DEF f
  <2>2. y \in RunState /\ Sound(y)
    BY <1>2, <1>3, <2>1, CountKeeps DEF Sound, RunState
  <2>3. Observe("transition_failed", q.from, NextRef(q.st), q.outcome, "none") \in Obs
    BY <1>2, ObserveType
  <2>4. /\ AppendObs(q.run, Observe("transition_failed", q.from, NextRef(q.st),
                                    q.outcome, "none"))
        /\ Continue(w, "insert", y)
    BY <1>5 DEF ExecuteNoTransition, f
  <2> HIDE DEF y
  <2>5. log' \in [RunIds -> Seq(Obs)]
    BY <1>2, <2>3, <2>4, AppendOK DEF IInv, TypeOK
  <2>6. ReqOK'
    BY <1>1, <2>2, <2>4, ContinueOK DEF IInv, Points
  <2> QED BY <1>1, <2>5, <2>6, HandlerSound DEF IInv, TypeOK
<1>6. CASE ExecuteLostTarget(w)
  <2>1. ReqOK'
    BY <1>1, <1>6, RespondOK DEF ExecuteLostTarget, IInv
  <2> QED BY <1>1, <1>6, <2>1, HandlerSound DEF ExecuteLostTarget, IInv, TypeOK
<1>7. CASE ExecuteTrace(w)
  <2> DEFINE y == [q.st EXCEPT !.count = CountOf(q.run)]
  <2>1. y \in RunState /\ Sound(y)
    BY <1>2, <1>3, CountKeeps DEF Sound, RunState
  <2>2. q.target # None
    BY <1>2, <1>7 DEF ExecuteTrace, RequestSound
  <2>3. Observe("transition_applied", q.from, NextRef(q.st), q.outcome, q.target) \in Obs
    BY <1>2, <2>2, ObserveType
  <2>4. /\ AppendObs(q.run, Observe("transition_applied", q.from, NextRef(q.st),
                                    q.outcome, q.target))
        /\ Continue(w, "insert", y)
    BY <1>7 DEF ExecuteTrace
  <2> HIDE DEF y
  <2>5. log' \in [RunIds -> Seq(Obs)]
    BY <1>2, <2>3, <2>4, AppendOK DEF IInv, TypeOK
  <2>6. ReqOK'
    BY <1>1, <2>1, <2>4, ContinueOK DEF IInv, Points
  <2> QED BY <1>1, <2>5, <2>6, HandlerSound DEF IInv, TypeOK
<1> QED BY <1>4, <1>5, <1>6, <1>7

\* The clone of a handler about to decide: the open gate of its current step.
LEMMA Deciding ==
  ASSUME IInv, NEW w \in Workers, ~Idle(w), req[w].at = "decide"
  PROVE  LET x == req[w].st IN
         /\ x.gate \in Gate /\ x.gate # None
         /\ x.gate.status = "waiting_review" /\ x.gate.step = x.step
         /\ x.status = "waiting_review" /\ StepType(x) = "human_gate"
         /\ x.steps[x.step] \in ContractStep
BY InFlight DEF RequestSound, Coherent, RunState

LEMMA ResolveReadSound ==
  ASSUME IInv, NEW w \in Workers, NEW r \in RunIds, NEW s \in Steps,
         NEW d \in Decisions, ResolveRead(w, r, s, d)
  PROVE  IInv'
<1>1. /\ runs[r] # None /\ runs[r].gate # None /\ runs[r].gate.status = "waiting_review"
      /\ Serve(w, "decide", r, runs[r], s, d)
      /\ UNCHANGED <<registry, runs, log, store, calls>>
  BY DEF ResolveRead
<1>2. runs[r] \in RunState /\ Sound(runs[r])
  BY <1>1, InMap
<1>3. ReqOK'
  BY <1>1, <1>2, ServeOK DEF IInv, Points, Decisions, Outcomes
<1> QED BY <1>1, <1>3, HandlerSound DEF IInv, TypeOK

LEMMA ExecuteReadSound ==
  ASSUME IInv, NEW w \in Workers, NEW r \in RunIds, NEW s \in Steps,
         NEW op \in Ops, ExecuteRead(w, r, s, op)
  PROVE  IInv'
<1>1. /\ runs[r] # None /\ Serve(w, "admit", r, runs[r], s, "none")
      /\ UNCHANGED <<registry, runs, log, store, calls>>
  BY DEF ExecuteRead
<1>2. runs[r] \in RunState /\ Sound(runs[r])
  BY <1>1, InMap
<1>3. ReqOK'
  BY <1>1, <1>2, ServeOK DEF IInv, Points
<1> QED BY <1>1, <1>3, HandlerSound DEF IInv, TypeOK

LEMMA EvidenceSound ==
  ASSUME IInv, NEW w \in Workers, NEW r \in RunIds,
         EvidenceRead(w, r) \/ EvidenceAnswer(w)
  PROVE  IInv'
<1>1. UNCHANGED <<registry, runs, log, store, calls>>
  BY DEF EvidenceRead, EvidenceAnswer
<1>2. CASE EvidenceRead(w, r)
  <2>1. runs[r] # None /\ Serve(w, "evidence", r, runs[r], runs[r].step, "none")
    BY <1>2 DEF EvidenceRead
  <2>2. runs[r] \in RunState /\ Sound(runs[r]) /\ runs[r].step \in Steps
    BY <2>1, InMap DEF RunState
  <2>3. ReqOK'
    BY <1>1, <2>1, <2>2, ServeOK DEF IInv, Points
  <2> QED BY <1>1, <2>3, HandlerSound DEF IInv, TypeOK
<1>3. CASE EvidenceAnswer(w)
  <2>1. ReqOK'
    BY <1>1, <1>3, RespondOK DEF EvidenceAnswer, IInv
  <2> QED BY <1>1, <2>1, HandlerSound DEF IInv, TypeOK
<1> QED BY <1>2, <1>3

\* Both branches end by recording a gate that is no longer open.
LEMMA ResolutionSound ==
  ASSUME IInv, NEW w \in Workers, ~Idle(w), UNCHANGED <<registry, runs, store, calls>>,
         NEW x \in RunState, x.steps[x.step] # None, registry[x.contract] # None,
         NEW gate \in Gate,
         gate.status = "resolved", gate.decision \in Decisions,
         gate.decision = "approve" => gate.step = x.step,
         RecordResolution(w, x, gate)
  PROVE  IInv'
<1> DEFINE r == req[w].run
           g == [x EXCEPT !.gate = gate]
           y == [x EXCEPT !.gate = gate, !.count = CountOf(r)]
<1>1. r \in RunIds /\ CountOf(r) \in Nat
  BY InFlight, CountType DEF IInv, TypeOK
<1>2. /\ AppendObs(r, Observe("gate_resolved", gate.step, NextRef(x), gate.decision, "none"))
      /\ Continue(w, "insert", y)
  BY DEF RecordResolution
<1>3. gate # None
  BY RunAbsenceAssumption
<1>4. g \in RunState /\ Coherent(g) /\ g.contract = x.contract
  BY <1>3 DEF RunState, Coherent
<1>5. y = [g EXCEPT !.count = CountOf(r)]
  BY DEF RunState
<1> HIDE DEF g, r
<1>6. y \in RunState /\ Sound(y)
  BY <1>1, <1>4, <1>5, CountKeeps DEF Sound, RunState
<1> HIDE DEF y
<1>7. Observe("gate_resolved", gate.step, NextRef(x), gate.decision, "none") \in Obs
  BY ObserveType DEF Gate, Decisions, Outcomes, NextRef, RunState
<1>8. log' \in [RunIds -> Seq(Obs)]
  BY <1>1, <1>2, <1>7, AppendOK DEF IInv, TypeOK
<1>9. ReqOK'
  BY <1>2, <1>6, ContinueOK DEF IInv, Points
<1> QED BY <1>8, <1>9, HandlerSound DEF IInv, TypeOK

LEMMA ApproveSound ==
  ASSUME IInv, NEW w \in Workers, Approve(w)
  PROVE  IInv'
<1> DEFINE x == req[w].st
           z == SetStepStatus(x, x.step, "ready")
           y == [z EXCEPT !.status = "in_progress", !.nextOp = x.steps[x.step].op,
                          !.adm = "HUMAN_GATE_APPROVED"]
           gate == Resolved(x.gate, "approve")
<1>1. ~Idle(w) /\ req[w].at = "decide" /\ UNCHANGED <<registry, runs, store, calls>>
      /\ RecordResolution(w, y, gate)
  BY DEF Approve
<1>2. /\ x \in RunState /\ Sound(x) /\ x.step \in Steps /\ x.steps[x.step] # None
  BY <1>1, InFlight DEF RequestSound, Coherent
<1>3. gate \in Gate /\ gate.status = "resolved" /\ gate.decision = "approve"
      /\ gate.step = x.step /\ x.steps[x.step] \in ContractStep
  BY <1>1, Deciding DEF Gate, Resolved, Decisions
<1>4. /\ z \in RunState /\ z.steps[x.step] # None
      /\ z.step = x.step /\ z.contract = x.contract
      /\ z.gate = x.gate /\ x.gate.status = "waiting_review"
  <2>1. x.gate.status = "waiting_review"
    BY <1>1, Deciding
  <2> HIDE DEF x
  <2>2. x \in RunState /\ x.step \in Steps /\ x.steps[x.step] # None /\ "ready" \in StepStatus
    BY <1>2 DEF StepStatus
  <2>3. /\ z \in RunState /\ z.steps[x.step] # None
        /\ z.step = x.step /\ z.contract = x.contract /\ z.gate = x.gate
    BY <2>2, StatusAlone
  <2> QED BY <2>1, <2>3
<1>5. x.steps[x.step].op \in Ops \cup {None}
  BY <1>3 DEF ContractStep
<1> HIDE DEF z
<1>6. /\ y \in RunState /\ y.step = x.step /\ y.contract = x.contract
      /\ y.steps[y.step] # None
  BY <1>4, <1>5 DEF RunState, RunStatus, Reasons, Allowed
<1> HIDE DEF y, gate
<1> QED BY <1>1, <1>2, <1>3, <1>6, ResolutionSound DEF Sound, Decisions

LEMMA RecordRejectSound ==
  ASSUME IInv, NEW w \in Workers, RecordReject(w)
  PROVE  IInv'
<1> DEFINE x == req[w].st
           gate == Resolved(GateForStep(req[w].from), "reject")
<1>1. ~Idle(w) /\ UNCHANGED <<registry, runs, store, calls>> /\ RecordResolution(w, x, gate)
  BY DEF RecordReject
<1>2. /\ x \in RunState /\ Sound(x) /\ x.steps[x.step] # None /\ req[w].from \in Steps
  BY <1>1, InFlight DEF RequestSound, Coherent
<1>3. gate \in Gate /\ gate.status = "resolved" /\ gate.decision = "reject"
  BY <1>2 DEF Gate, Resolved, GateForStep, Decisions
<1> HIDE DEF x, gate
<1> QED BY <1>1, <1>2, <1>3, ResolutionSound DEF Sound, Decisions

LEMMA RejectSound ==
  ASSUME IInv, NEW w \in Workers, Reject(w) \/ RejectNoTransition(w)
  PROVE  IInv'
<1> DEFINE q == req[w]
           t == RejectTarget(w)
<1>1. ~Idle(w) /\ q.at = "decide" /\ UNCHANGED <<registry, runs, store, calls>>
  BY DEF Reject, RejectNoTransition
<1>2. /\ q \in Request /\ q.run \in RunIds /\ q.st \in RunState /\ Sound(q.st)
      /\ q.st.step \in Steps /\ q.st.steps[q.st.step] # None
      /\ q.st.gate \in Gate /\ q.st.gate.step \in Steps
      /\ NextRef(q.st) \in Nat /\ CountOf(q.run) \in Nat
  BY <1>1, InFlight, Deciding, CountType
     DEF RequestSound, Coherent, NextRef, Gate, IInv, TypeOK
<1>3. t \in Target \cup {None}
  BY <1>1, InFlight, ResolveType DEF RejectTarget, Outcomes
<1> HIDE DEF t
<1>4. CASE Reject(w)
  <2> DEFINE x == SetStepStatus(q.st, q.st.step, "blocked")
             z == IF Applicable(x, t) THEN ApplyTransition(x, t) ELSE x
             y == [z EXCEPT !.adm = "HUMAN_GATE_REJECTED", !.count = CountOf(q.run)]
             n == [q EXCEPT !.at = "resolved", !.target = t, !.st = y]
  <2>1. /\ t # None
        /\ AppendObs(q.run, Observe("transition_applied", q.st.gate.step, NextRef(x),
                                    "reject", t))
        /\ req' = [req EXCEPT ![w] = n]
    BY <1>4 DEF Reject, t
  <2>2. /\ x \in RunState /\ x.contract = q.st.contract /\ x.count = q.st.count
        /\ x.step = q.st.step /\ x.gate = q.st.gate /\ x.status = q.st.status
        /\ x.steps[x.step] # None /\ StepType(x) = StepType(q.st)
    BY <1>2, SetStepStatusType DEF StepStatus, RunState, StepType
  <2>3. Coherent(x)
    BY <1>2, <2>2 DEF Coherent, Sound
  <2> HIDE DEF x
  <2>4. z \in RunState /\ Coherent(z) /\ z.contract = q.st.contract
    BY <1>3, <2>1, <2>2, <2>3, ApplyTransitionType, TransitionKeepsContract
  <2> HIDE DEF z
  <2>5. y \in RunState /\ Sound(y)
    <3>1. "HUMAN_GATE_REJECTED" \in Reasons
      BY DEF Reasons
    <3>2. y \in RunState /\ Coherent(y)
      BY <1>2, <2>4, <3>1, BookkeepingKeeps
    <3>3. y.contract = z.contract
      BY <2>4 DEF RunState
    <3> QED BY <1>2, <2>4, <3>2, <3>3 DEF Sound
  <2> HIDE DEF y
  <2>6. n \in Request /\ RequestSound(n)
    BY <1>2, <1>3, <2>5 DEF Request, RequestSound, Points
  <2> HIDE DEF n
  <2>7. ReqOK'
    BY <1>1, <2>1, <2>6, SetRequest DEF IInv
  <2>8. NextRef(x) \in Nat
    BY <1>2, <2>2 DEF NextRef
  <2>9. Observe("transition_applied", q.st.gate.step, NextRef(x), "reject", t) \in Obs
    BY <1>2, <1>3, <2>1, <2>8, ObserveType DEF Outcomes
  <2>10. log' \in [RunIds -> Seq(Obs)]
    BY <1>2, <2>1, <2>9, AppendOK DEF IInv, TypeOK
  <2> QED BY <1>1, <2>7, <2>10, HandlerSound DEF IInv, TypeOK
<1>5. CASE RejectNoTransition(w)
  <2> DEFINE f == FailRun(q.st)
             y == [f EXCEPT !.count = CountOf(q.run)]
  <2>1. /\ AppendObs(q.run, Observe("transition_failed", q.st.gate.step, NextRef(q.st),
                                    "reject", "none"))
        /\ Continue(w, "insert", y)
    BY <1>5 DEF RejectNoTransition
  <2>2. f \in RunState /\ Coherent(f) /\ f.contract = q.st.contract
    BY <1>2, FailRunType DEF FailRun, RunState
  <2> HIDE DEF f
  <2>3. y \in RunState /\ Sound(y)
    BY <1>2, <2>2, CountKeeps DEF Sound, RunState
  <2> HIDE DEF y
  <2>4. Observe("transition_failed", q.st.gate.step, NextRef(q.st), "reject", "none") \in Obs
    BY <1>2, ObserveType DEF Outcomes
  <2>5. log' \in [RunIds -> Seq(Obs)]
    BY <1>2, <2>1, <2>4, AppendOK DEF IInv, TypeOK
  <2>6. ReqOK'
    BY <1>1, <2>1, <2>3, ContinueOK DEF IInv, Points
  <2> QED BY <1>1, <2>5, <2>6, HandlerSound DEF IInv, TypeOK
<1> QED BY <1>4, <1>5

\* A process that starts again holds no run and serves no request.
LEMMA RestartSound ==
  ASSUME IInv, Restart
  PROVE  IInv'
<1>1. TypeOK'
  BY RunConstantsAssumption DEF IInv, Restart, TypeOK
<1>2. RunsOK' /\ ReqOK'
  BY <1>1 DEF Restart, TypeOK, RunsOK, ReqOK, Idle
<1> QED BY <1>1, <1>2 DEF IInv

-----------------------------------------------------------------------------
(* The theorems *)

LEMMA NextSound == IInv /\ [Next]_vars => IInv'
<1> SUFFICES ASSUME IInv, [Next]_vars PROVE IInv'
  OBVIOUS
<1>1. CASE UNCHANGED vars
  BY <1>1 DEF vars, IInv, TypeOK, RunsOK, ReqOK, RequestSound, Sound, Idle
<1>2. ASSUME NEW c \in Contracts, NEW f \in Submissions, Register(c, f) PROVE IInv'
  BY <1>2, RegisterSound
<1>3. ASSUME NEW r \in RunIds, GetNext(r) PROVE IInv'
  BY <1>3, GetNextSound
<1>4. ASSUME NEW w \in Workers, Arrive(w) PROVE IInv'
  BY <1>4, StartSound, EvidenceSound, ExecuteReadSound, ResolveReadSound DEF Arrive
<1>5. ASSUME NEW w \in Workers, Handle(w) PROVE IInv'
  <2>1. CASE EvidenceAnswer(w)
    <3>1. req[w].run \in RunIds
      BY <2>1, InFlight DEF EvidenceAnswer
    <3> QED BY <2>1, <3>1, EvidenceSound
  <2> QED BY <1>5, <2>1, InsertSound, PersistSound, AdmitSound, ConnectorSound, RecordSound,
     ApproveSound, RejectSound, RecordRejectSound DEF Handle
<1> QED BY <1>1, <1>2, <1>3, <1>4, <1>5, RestartSound DEF Next

THEOREM IInvAlways == Spec => []IInv
<1> QED BY InitSound, NextSound, PTL DEF Spec

\* Every variable keeps its type, however the requests interleave.
THEOREM TypeCorrect == Spec => []TypeOK
<1>1. IInv => TypeOK
  BY DEF IInv
<1> QED BY <1>1, IInvAlways, PTL

\* Every state of a run, in the map or cloned by a handler, stands on a step
\* it has, and a gate that is open or approved is the gate of that step: the
\* lookups the handlers expect to succeed do, and no decision opens another
\* step, whatever overlapping requests and registrations do.
THEOREM RunsAlwaysCoherent == Spec => []RunsCoherent
<1>1. IInv => RunsCoherent
  BY InFlight, InMap DEF RunsCoherent, Held
<1> QED BY <1>1, IInvAlways, PTL

=============================================================================
