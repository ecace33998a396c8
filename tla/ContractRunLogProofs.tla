------------------------- MODULE ContractRunLogProofs -------------------------
(***************************************************************************)
(* Proofs about what the log of ContractRun accounts for: every connector  *)
(* call has its admission, every run that ended what ended it, and every   *)
(* gated step that was left its approval.                                  *)
(***************************************************************************)
EXTENDS ContractRunProofs

-----------------------------------------------------------------------------
(* The log of a process only grows *)

\* What was recorded stays where it was.
Grows == \A r \in RunIds : \A i \in DOMAIN log[r] :
           i \in DOMAIN log'[r] /\ log'[r][i] = log[r][i]

LEMMA AppendGrows ==
  ASSUME TypeOK, NEW r \in RunIds, NEW o, AppendObs(r, o)
  PROVE  /\ Grows
         /\ CountOf(r) \in DOMAIN log'[r] /\ CountOf(r) \notin DOMAIN log[r]
         /\ log'[r][CountOf(r)] = o
         /\ DOMAIN log'[r] = DOMAIN log[r] \cup {CountOf(r)}
         /\ \A q \in RunIds \ {r} : log'[q] = log[q]
<1>1. log \in [RunIds -> Seq(Obs)]
  BY DEF TypeOK
<1>2. log' = [log EXCEPT ![r] = Append(log[r], o)]
  BY DEF AppendObs
<1>3. /\ log'[r] = Append(log[r], o)
      /\ \A q \in RunIds \ {r} : log'[q] = log[q]
  BY <1>1, <1>2
<1>4. /\ log[r] \in Seq(Obs) /\ Len(log[r]) \in Nat /\ DOMAIN log[r] = 1 .. Len(log[r])
  BY <1>1
<1> DEFINE s == log[r]
<1>5. /\ DOMAIN Append(s, o) = 1 .. Len(s) + 1
      /\ \A i \in 1 .. Len(s) : Append(s, o)[i] = s[i]
      /\ Append(s, o)[Len(s) + 1] = o
  <2> HIDE DEF s
  <2> QED BY <1>4 DEF s
<1> QED BY <1>3, <1>4, <1>5 DEF Grows, CountOf

-----------------------------------------------------------------------------
(* Calls.  A handler about to call holds the place of its admission in the *)
(* log, which no other handler and no call so far holds.                   *)

AdmittedAt(r, n, s) ==
  n \in DOMAIN log[r] /\ log[r][n].event = "operation_admitted" /\ log[r][n].step = s

Calling(w) == ~Idle(w) /\ req[w].at = "call"

CallerAdmitted(w) ==
  /\ AdmittedAt(req[w].run, req[w].st.count, req[w].st.step)
  /\ \A j \in DOMAIN calls[req[w].run] : calls[req[w].run][j].admitted # req[w].st.count

SameAdmission(v, w) == req[v].run = req[w].run /\ req[v].st.count = req[w].st.count

CallInv == /\ \A w \in Workers : Calling(w) => CallerAdmitted(w)
           /\ \A v, w \in Workers : Calling(v) /\ Calling(w) /\ SameAdmission(v, w) => v = w
           /\ CallsAdmitted

\* A step that calls nobody and lets nobody call.
LEMMA CallsKept ==
  ASSUME IInv, CallInv, Grows, UNCHANGED calls,
         \A v \in Workers : Calling(v)' => Calling(v) /\ req'[v] = req[v]
  PROVE  CallInv'
<1>1. ASSUME NEW w \in Workers, Calling(w)'
      PROVE  CallerAdmitted(w)'
  <2>1. Calling(w) /\ req'[w] = req[w] /\ req[w].run \in RunIds
    BY <1>1, InFlight DEF Calling
  <2> QED BY <2>1 DEF CallInv, CallerAdmitted, AdmittedAt, Grows
<1>2. ASSUME NEW v \in Workers, NEW w \in Workers, Calling(v)', Calling(w)', SameAdmission(v, w)'
      PROVE  v = w
  BY <1>2 DEF CallInv, SameAdmission
<1>3. CallsAdmitted'
  BY DEF CallInv, CallsAdmitted, Grows
<1> QED BY <1>1, <1>2, <1>3 DEF CallInv

LEMMA RespondCallsNobody ==
  ASSUME IInv, NEW w \in Workers, Respond(w)
  PROVE  \A v \in Workers : Calling(v)' => Calling(v) /\ req'[v] = req[v]
BY DEF IInv, ReqOK, Respond, Calling, Idle

LEMMA ContinueCallsNobody ==
  ASSUME IInv, NEW w \in Workers, ~Idle(w), NEW point \in Points \ {"call"}, NEW x,
         Continue(w, point, x)
  PROVE  \A v \in Workers : Calling(v)' => Calling(v) /\ req'[v] = req[v]
<1>1. req[w] \in Request /\ req \in [Workers -> Request \cup {None}]
  BY InFlight DEF IInv, ReqOK
<1> DEFINE q == [req[w] EXCEPT !.at = point, !.st = x]
<1>2. q.at = point /\ req' = [req EXCEPT ![w] = q]
  BY <1>1 DEF Continue, Request
<1> HIDE DEF q
<1> QED BY <1>1, <1>2 DEF Calling, Idle

LEMMA ServeCallsNobody ==
  ASSUME IInv, NEW w \in Workers, NEW r, NEW point \in Points \ {"call"}, NEW x, NEW s, NEW o,
         Serve(w, point, r, x, s, o)
  PROVE  \A v \in Workers : Calling(v)' => Calling(v) /\ req'[v] = req[v]
BY DEF IInv, ReqOK, Serve, Calling, Idle

LEMMA AdmitCalls ==
  ASSUME IInv, CallInv, NEW w \in Workers, ExecuteAdmit(w)
  PROVE  CallInv'
<1> DEFINE q == req[w]
           o == Observe("operation_admitted", q.st.step, NextRef(q.st), "none", ReqAdmission(w))
           n == CountOf(q.run)
<1>1. /\ ~Idle(w) /\ q \in Request /\ q.run \in RunIds /\ q.st \in RunState
      /\ AppendObs(q.run, o) /\ UNCHANGED calls /\ TypeOK /\ TypeOK'
      /\ req \in [Workers -> Request \cup {None}]
  BY InFlight, AdmitSound DEF ExecuteAdmit, IInv, ReqOK
<1>2. /\ Grows /\ n \in DOMAIN log'[q.run] /\ n \notin DOMAIN log[q.run]
      /\ log'[q.run][n] = o
  BY <1>1, AppendGrows
<1>3. CASE Respond(w)
  BY <1>1, <1>2, <1>3, RespondCallsNobody, CallsKept
<1>4. ASSUME NEW point \in {"record", "call"},
             req' = [req EXCEPT ![w] = [Admitted(w) EXCEPT !.at = point]]
      PROVE  CallInv'
  <2>1. /\ req'[w].run = q.run /\ req'[w].st.count = n /\ req'[w].st.step = q.st.step
        /\ \A v \in Workers \ {w} : req'[v] = req[v]
    BY <1>1, <1>4 DEF Admitted, Request, RunState
  <2>2. o.event = "operation_admitted" /\ o.step = q.st.step
    BY DEF Observe
  <2> HIDE DEF n, q, o
  <2>3. \A j \in DOMAIN calls[q.run] : calls[q.run][j].admitted # n
    BY <1>1, <1>2 DEF CallInv, CallsAdmitted
  <2>4. CallerAdmitted(w)'
    BY <1>1, <1>2, <2>1, <2>2, <2>3 DEF CallerAdmitted, AdmittedAt
  <2>5. ASSUME NEW v \in Workers \ {w}, Calling(v)'
        PROVE  /\ Calling(v) /\ req'[v] = req[v] /\ req[v].run \in RunIds /\ CallerAdmitted(v)
               /\ CallerAdmitted(v)'
    <3>1. Calling(v) /\ req'[v] = req[v]
      BY <2>1, <2>5 DEF Calling, Idle
    <3>2. req[v].run \in RunIds /\ CallerAdmitted(v)
      BY <3>1, InFlight DEF CallInv, Calling
    <3> QED BY <1>1, <1>2, <3>1, <3>2 DEF CallerAdmitted, AdmittedAt, Grows
  <2>6. ASSUME NEW v \in Workers \ {w}, Calling(v)'
        PROVE  ~SameAdmission(v, w)' /\ ~SameAdmission(w, v)'
    BY <1>2, <2>1, <2>5, <2>6 DEF SameAdmission, CallerAdmitted, AdmittedAt
  <2>7. \A u, v \in Workers : Calling(u)' /\ Calling(v)' /\ SameAdmission(u, v)' => u = v
    <3> SUFFICES ASSUME NEW u \in Workers, NEW v \in Workers,
                        Calling(u)', Calling(v)', SameAdmission(u, v)', u # v
                 PROVE  FALSE
      OBVIOUS
    <3>1. u # w /\ v # w
      BY <2>6
    <3> QED BY <2>5, <3>1 DEF CallInv, SameAdmission
  <2>8. CallsAdmitted'
    BY <1>1, <1>2 DEF CallInv, CallsAdmitted, Grows
  <2> QED BY <2>4, <2>5, <2>7, <2>8 DEF CallInv
<1> QED BY <1>1, <1>3, <1>4 DEF ExecuteAdmit

LEMMA ConnectorCalls ==
  ASSUME IInv, CallInv, NEW w \in Workers, ConnectorOk(w) \/ ConnectorErr(w)
  PROVE  CallInv'
<1> DEFINE r    == req[w].run
           call == [step |-> req[w].st.step, admitted |-> req[w].st.count]
<1>1. /\ Calling(w) /\ UNCHANGED log /\ r \in RunIds /\ (Deliver(w) \/ UNCHANGED calls)
      /\ calls \in [RunIds -> Seq(Call)] /\ req[w].st.step \in Steps /\ req[w].st.count \in Nat
  BY InFlight DEF ConnectorOk, ConnectorErr, Calling, IInv, TypeOK
<1>2. Grows
  BY <1>1 DEF Grows
<1>3. \A v \in Workers : Calling(v)' => v # w /\ Calling(v) /\ req'[v] = req[v]
  <2>1. CASE ConnectorOk(w)
    <3>1. Continue(w, "record", req[w].st) /\ ~Idle(w)
      BY <2>1 DEF ConnectorOk
    <3>2. ~Calling(w)'
      BY <3>1, InFlight DEF Continue, Calling, IInv, ReqOK, Request
    <3> QED BY <3>1, <3>2, ContinueCallsNobody DEF Points
  <2>2. CASE ConnectorErr(w)
    <3>1. Respond(w)
      BY <2>2 DEF ConnectorErr
    <3>2. ~Calling(w)'
      BY <3>1 DEF Respond, Calling, Idle, IInv, ReqOK
    <3> QED BY <3>1, <3>2, RespondCallsNobody
  <2> QED BY <2>1, <2>2
<1>4. CASE UNCHANGED calls
  BY <1>2, <1>3, <1>4, CallsKept
<1>5. CASE Deliver(w)
  <2>1. /\ call.step = req[w].st.step /\ call.admitted = req[w].st.count
        /\ calls' = [calls EXCEPT ![r] = Append(calls[r], call)]
    BY <1>5 DEF Deliver
  <2>2. CallerAdmitted(w)
    BY <1>1 DEF CallInv
  <2> HIDE DEF call, r
  <2>3. /\ \A q \in RunIds \ {r} : calls'[q] = calls[q]
        /\ calls'[r] = Append(calls[r], call) /\ calls[r] \in Seq(Call)
    BY <1>1, <2>1
  <2>4. /\ DOMAIN calls'[r] = DOMAIN calls[r] \cup {Len(calls[r]) + 1}
        /\ Len(calls[r]) + 1 \notin DOMAIN calls[r]
        /\ calls'[r][Len(calls[r]) + 1] = call
        /\ \A j \in DOMAIN calls[r] : calls'[r][j] = calls[r][j]
    <3> DEFINE c == calls[r]
    <3>1. c \in Seq(Call) /\ calls'[r] = Append(c, call)
      BY <2>3
    <3> HIDE DEF c
    <3>2. DOMAIN c = 1 .. Len(c) /\ Len(c) \in Nat
      BY <3>1
    <3> QED BY <3>1, <3>2 DEF c
  <2>5. AdmittedAt(r, call.admitted, call.step)
    BY <2>1, <2>2 DEF CallerAdmitted, r
  <2>6. \A j \in DOMAIN calls[r] : calls[r][j].admitted # call.admitted
    BY <2>1, <2>2 DEF CallerAdmitted, r
  <2>7. CallsAdmitted'
    <3> SUFFICES ASSUME NEW q \in RunIds, NEW i \in DOMAIN calls'[q]
                 PROVE  /\ AdmittedAt(q, calls'[q][i].admitted, calls'[q][i].step)
                        /\ \A j \in DOMAIN calls'[q] :
                             calls'[q][j].admitted = calls'[q][i].admitted => j = i
      BY <1>1 DEF CallsAdmitted, AdmittedAt
    <3>1. CASE q # r
      BY <2>3, <3>1 DEF CallInv, CallsAdmitted, AdmittedAt
    <3>2. CASE q = r /\ i \in DOMAIN calls[r]
      BY <2>4, <2>6, <3>2 DEF CallInv, CallsAdmitted, AdmittedAt
    <3>3. CASE q = r /\ i = Len(calls[r]) + 1
      BY <2>4, <2>5, <2>6, <3>3
    <3> QED BY <2>4, <3>1, <3>2, <3>3
  <2>8. ASSUME NEW v \in Workers, Calling(v)'
        PROVE  CallerAdmitted(v)'
    <3>1. /\ v # w /\ Calling(v) /\ req'[v] = req[v] /\ req[v].run \in RunIds
          /\ CallerAdmitted(v) /\ ~SameAdmission(v, w)
      BY <1>1, <1>3, <2>8, InFlight DEF CallInv, Calling
    <3>2. AdmittedAt(req[v].run, req[v].st.count, req[v].st.step)'
      BY <1>1, <3>1 DEF CallerAdmitted, AdmittedAt
    <3>3. \A j \in DOMAIN calls'[req[v].run] : calls'[req[v].run][j].admitted # req[v].st.count
      <4>1. CASE req[v].run # r
        BY <2>3, <3>1, <4>1 DEF CallerAdmitted
      <4>2. CASE req[v].run = r
        BY <2>1, <2>4, <3>1, <4>2 DEF CallerAdmitted, SameAdmission, r
      <4> QED BY <4>1, <4>2
    <3> QED BY <3>1, <3>2, <3>3 DEF CallerAdmitted
  <2>9. \A u, v \in Workers : Calling(u)' /\ Calling(v)' /\ SameAdmission(u, v)' => u = v
    BY <1>3 DEF CallInv, SameAdmission
  <2> QED BY <2>7, <2>8, <2>9 DEF CallInv
<1> QED BY <1>1, <1>4, <1>5

LEMMA RestartCalls ==
  ASSUME IInv, Restart
  PROVE  CallInv'
BY DEF Restart, CallInv, CallsAdmitted, Calling, Idle

\* Every other action appends at most, and serves, continues or ends a request
\* that does not go on to call.
LEMMA OthersCallNobody ==
  ASSUME IInv, CallInv, NEW w \in Workers, UNCHANGED calls,
         UNCHANGED log \/ \E r \in RunIds : \E o : AppendObs(r, o),
         \/ Respond(w)
         \/ ~Idle(w) /\ \E point \in Points \ {"call"} : \E x : Continue(w, point, x)
         \/ \E point \in Points \ {"call"} : \E r, x, s, o : Serve(w, point, r, x, s, o)
  PROVE  CallInv'
<1>1. Grows
  <2>1. CASE UNCHANGED log
    BY <2>1 DEF Grows
  <2>2. CASE \E r \in RunIds : \E o : AppendObs(r, o)
    BY <2>2, AppendGrows DEF IInv
  <2> QED BY <2>1, <2>2
<1>2. \A v \in Workers : Calling(v)' => Calling(v) /\ req'[v] = req[v]
  BY RespondCallsNobody, ContinueCallsNobody, ServeCallsNobody
<1> QED BY <1>1, <1>2, CallsKept

LEMMA ArriveCalls ==
  ASSUME IInv, CallInv, NEW w \in Workers, Arrive(w)
  PROVE  CallInv'
<1> USE DEF Points
<1>1. ASSUME NEW r \in RunIds, NEW c \in Contracts, NEW auth \in BOOLEAN, Start(w, r, c, auth)
      PROVE  CallInv'
  BY <1>1, OthersCallNobody DEF Start
<1>2. ASSUME NEW r \in RunIds, EvidenceRead(w, r)
      PROVE  CallInv'
  BY <1>2, OthersCallNobody DEF EvidenceRead
<1>3. ASSUME NEW r \in RunIds, NEW s \in Steps, NEW op \in Ops, ExecuteRead(w, r, s, op)
      PROVE  CallInv'
  BY <1>3, OthersCallNobody DEF ExecuteRead
<1>4. ASSUME NEW r \in RunIds, NEW s \in Steps, NEW d \in Decisions, ResolveRead(w, r, s, d)
      PROVE  CallInv'
  BY <1>4, OthersCallNobody DEF ResolveRead
<1> QED BY <1>1, <1>2, <1>3, <1>4 DEF Arrive

LEMMA HandleCalls ==
  ASSUME IInv, CallInv, NEW w \in Workers, Handle(w)
  PROVE  CallInv'
<1> USE DEF Points
<1>1. ~Idle(w) /\ req[w].run \in RunIds /\ req \in [Workers -> Request \cup {None}]
      /\ req[w] \in Request
  <2>1. ~Idle(w)
    BY DEF Handle, Insert, PersistRead, PersistPut, PersistFail, EvidenceAnswer, ExecuteDeny,
           ExecuteAdmit, ConnectorOk, ConnectorErr, ExecuteRecord, ExecuteNoTransition,
           ExecuteLostTarget, ExecuteTrace, Approve, Reject, RejectNoTransition, RecordReject
  <2> QED BY <2>1, InFlight DEF IInv, ReqOK
<1>2. CASE Insert(w)
  BY <1>1, <1>2, OthersCallNobody DEF Insert
<1>3. CASE PersistRead(w)
  <2>1. UNCHANGED <<log, calls>> /\ Grows
    BY <1>3 DEF PersistRead, Grows
  <2>2. \A v \in Workers : Calling(v)' => Calling(v) /\ req'[v] = req[v]
    BY <1>1, <1>3 DEF PersistRead, Calling, Idle, Request
  <2> QED BY <2>1, <2>2, CallsKept
<1>4. CASE PersistPut(w) \/ PersistFail(w) \/ EvidenceAnswer(w) \/ ExecuteDeny(w)
            \/ ExecuteLostTarget(w)
  BY <1>4, OthersCallNobody
     DEF PersistPut, PersistFail, EvidenceAnswer, ExecuteDeny, ExecuteLostTarget
<1>5. CASE ExecuteAdmit(w)
  BY <1>5, AdmitCalls
<1>6. CASE ConnectorOk(w) \/ ConnectorErr(w)
  BY <1>6, ConnectorCalls
<1>7. CASE ExecuteRecord(w)
  BY <1>1, <1>7, OthersCallNobody DEF ExecuteRecord
<1>8. CASE ExecuteNoTransition(w)
  BY <1>1, <1>8, OthersCallNobody DEF ExecuteNoTransition
<1>9. CASE ExecuteTrace(w)
  BY <1>1, <1>9, OthersCallNobody DEF ExecuteTrace
<1>10. CASE Approve(w)
  BY <1>1, <1>10, OthersCallNobody DEF Approve, RecordResolution
<1>11. CASE RecordReject(w)
  BY <1>1, <1>11, OthersCallNobody DEF RecordReject, RecordResolution
<1>12. CASE RejectNoTransition(w)
  BY <1>1, <1>12, OthersCallNobody DEF RejectNoTransition
<1>13. CASE Reject(w)
  <2>1. UNCHANGED calls /\ \E o : AppendObs(req[w].run, o)
    BY <1>13 DEF Reject
  <2>2. Grows
    BY <1>1, <2>1, AppendGrows DEF IInv
  <2>3. \A v \in Workers : Calling(v)' => Calling(v) /\ req'[v] = req[v]
    BY <1>1, <1>13 DEF Reject, Calling, Idle, Request
  <2> QED BY <2>1, <2>2, <2>3, CallsKept
<1> QED BY <1>2, <1>3, <1>4, <1>5, <1>6, <1>7, <1>8, <1>9, <1>10, <1>11, <1>12, <1>13 DEF Handle

LEMMA NextCalls == IInv /\ CallInv /\ [Next]_vars => CallInv'
<1> SUFFICES ASSUME IInv, CallInv, [Next]_vars PROVE CallInv'
  OBVIOUS
<1>1. CASE UNCHANGED <<log, req, calls>>
  BY <1>1, CallsKept DEF Grows, Calling, Idle
<1>2. ASSUME NEW w \in Workers, Arrive(w) \/ Handle(w) PROVE CallInv'
  BY <1>2, ArriveCalls, HandleCalls
<1> QED BY <1>1, <1>2, RestartCalls DEF Next, Register, GetNext, vars

\* Every call a provider has seen was admitted before, for its step and its run,
\* and no admission let two calls through, whatever requests overlap and however
\* often the process starts again.
THEOREM CallsAlwaysAdmitted == Spec => []CallsAdmitted
<1>1. Init => CallInv
  BY DEF Init, CallInv, CallsAdmitted, Calling, Idle
<1>2. Spec => []CallInv
  BY <1>1, NextCalls, IInvAlways, PTL DEF Spec
<1>3. CallInv => CallsAdmitted
  BY DEF CallInv
<1> QED BY <1>2, <1>3, PTL

-----------------------------------------------------------------------------
(* Ends.  A request holds a state whose end is in the log, but for the one *)
(* that has yet to trace the transition it took, and the one that persists *)
(* the log as it read it.                                                  *)

EndedIn(l, status) == status \in Terminals => \E i \in DOMAIN l : Accounts(l[i], status)

\* A transition to t leads to this status.
Explains(t, status) ==
  status \in Terminals => t = status \/ (status = "completed" /\ t \in TerminalSteps)

TypesKnown(x) == \A s \in Steps : x.steps[s] # None /\ x.steps[s].type = "terminal"
                                    => s \in TerminalSteps

RequestEnded(l, q) ==
  /\ TypesKnown(q.st)
  /\ q.at = "trace" => Explains(q.target, q.st.status)
  /\ q.at = "put" => EndedIn(q.snap, q.st.status)
  /\ q.at \notin {"trace", "put"} => EndedIn(l, q.st.status)

RunEnded(l, x) == TypesKnown(x) /\ EndedIn(l, x.status)

KnownFlows == Submissions \cup ({Seeded[c] : c \in Contracts} \ {None})

EndInv == /\ \A c \in Contracts : registry[c] # None => registry[c] \in KnownFlows
          /\ \A r \in RunIds : runs[r] # None => RunEnded(log[r], runs[r])
          /\ \A r \in RunIds : store[r] # None => EndedIn(store[r].obs, store[r].status)
          /\ \A w \in Workers : ~Idle(w) => RequestEnded(log[req[w].run], req[w])

SameTypes(x, y) == \A s \in Steps : y.steps[s] # None =>
                     x.steps[s] # None /\ y.steps[s].type = x.steps[s].type

LEMMA SameTypesKnown ==
  ASSUME NEW x, NEW y, TypesKnown(x), SameTypes(x, y)
  PROVE  TypesKnown(y)
BY DEF TypesKnown, SameTypes

LEMMA NewRunEnded ==
  ASSUME NEW c \in Contracts, NEW f \in Flow, f \in KnownFlows, NEW auth \in BOOLEAN
  PROVE  TypesKnown(NewRun(c, f, auth)) /\ NewRun(c, f, auth).status = "accepted"
<1> DEFINE x == NewRun(c, f, auth)
<1>1. x.steps = StepsFromFlow(f) /\ x.status = "accepted"
  BY DEF NewRun
<1>2. ASSUME NEW s \in Steps, StepsFromFlow(f)[s] # None, StepsFromFlow(f)[s].type = "terminal"
      PROVE  s \in TerminalSteps
  <2>1. HasStep(f, s) /\ f.steps[s].type = "terminal"
    BY <1>2 DEF StepsFromFlow
  <2> QED BY <2>1 DEF TerminalSteps, KnownFlows
<1> QED BY <1>1, <1>2 DEF TypesKnown

LEMMA SetStatusKeeps ==
  ASSUME NEW x \in RunState, NEW s \in Steps, x.steps[s] # None, NEW status \in StepStatus,
         NEW y, y = SetStepStatus(x, s, status)
  PROVE  y \in RunState /\ SameTypes(x, y) /\ y.status = x.status /\ y.step = x.step
<1>1. /\ y \in RunState
      /\ y = [x EXCEPT !.steps = [x.steps EXCEPT ![s] = [x.steps[s] EXCEPT !.status = status]]]
      /\ \A t \in Steps : y.steps[t] # None <=> x.steps[t] # None
      /\ \A t \in Steps : x.steps[t] # None => y.steps[t].type = x.steps[t].type
  BY SetStepStatusType
<1> QED BY <1>1 DEF SameTypes, RunState

LEMMA StepDoneKeeps ==
  ASSUME NEW x \in RunState, x.steps[x.step] # None
  PROVE  SameTypes(x, StepDone(x)) /\ StepDone(x).status = x.status
<1> DEFINE y == SetStepStatus(x, x.step, "completed")
<1>1. y \in RunState /\ SameTypes(x, y) /\ y.status = x.status
  BY SetStatusKeeps DEF RunState, StepStatus
<1>2. StepDone(x) = [y EXCEPT !.completed = y.completed + 1]
  BY DEF StepDone
<1> HIDE DEF y
<1> QED BY <1>1, <1>2 DEF RunState, SameTypes

\* A transition keeps the steps of the run and leads to a status it explains.
LEMMA TransitionExplains ==
  ASSUME NEW x \in RunState, TypesKnown(x), NEW t \in Target, Applicable(x, t)
  PROVE  /\ SameTypes(x, ApplyTransition(x, t))
         /\ Explains(t, ApplyTransition(x, t).status)
<1>1. CASE t \notin Steps
  BY <1>1 DEF ApplyTransition, SameTypes, Explains, RunState
<1>2. CASE t \in Steps
  <2> DEFINE there == [x EXCEPT !.step = t, !.gate = None, !.nextOp = x.steps[t].op]
  <2>1. x.steps[t] # None /\ x.steps[t] \in ContractStep
    BY <1>2 DEF Applicable, RunState
  <2>2. there \in RunState /\ there.steps = x.steps
    BY <1>2, <2>1 DEF RunState, ContractStep
  <2>3. ApplyTransition(x, t) = EnterStep(x, t)
    BY <1>2 DEF ApplyTransition
  <2> DEFINE set(status) == SetStepStatus(there, t, status)
  <2>4. \A status \in StepStatus : set(status) \in RunState /\ SameTypes(x, set(status))
    <3> HIDE DEF there
    <3> SUFFICES ASSUME NEW status \in StepStatus
                 PROVE  set(status) \in RunState /\ SameTypes(x, set(status))
      OBVIOUS
    <3>1. set(status) \in RunState /\ SameTypes(there, set(status))
      BY <1>2, <2>1, <2>2, SetStatusKeeps
    <3> QED BY <2>2, <3>1 DEF SameTypes
  <2>5. CASE x.steps[t].type = "human_gate"
    <3>1. EnterStep(x, t) = [set("waiting_review") EXCEPT !.status = "waiting_review",
                                                          !.gate = GateForStep(t)]
      BY <2>5 DEF EnterStep
    <3> HIDE DEF set
    <3> QED BY <2>3, <2>4, <3>1 DEF StepStatus, RunState, SameTypes, Explains, Terminals
  <2>6. CASE x.steps[t].type \in {"connector_action", "deterministic_action"}
    <3>1. EnterStep(x, t) = [set("ready") EXCEPT !.status = "in_progress"]
      BY <2>6 DEF EnterStep
    <3> HIDE DEF set
    <3> QED BY <2>3, <2>4, <3>1 DEF StepStatus, RunState, SameTypes, Explains, Terminals
  <2>7. CASE x.steps[t].type = "terminal"
    <3>1. EnterStep(x, t) = [set("completed") EXCEPT !.status = "completed", !.nextOp = None]
      BY <2>7 DEF EnterStep
    <3>2. t \in TerminalSteps
      BY <1>2, <2>1, <2>7 DEF TypesKnown
    <3> HIDE DEF set
    <3> QED BY <2>3, <2>4, <3>1, <3>2 DEF StepStatus, RunState, SameTypes, Explains
  <2> QED BY <2>1, <2>5, <2>6, <2>7 DEF ContractStep, StepTypes
<1> QED BY <1>1, <1>2

LEMMA EndStays ==
  ASSUME Grows, NEW r \in RunIds
  PROVE  /\ \A status : EndedIn(log[r], status) => EndedIn(log'[r], status)
         /\ \A q : RequestEnded(log[r], q) => RequestEnded(log'[r], q)
         /\ \A x : RunEnded(log[r], x) => RunEnded(log'[r], x)
<1>1. \A status : EndedIn(log[r], status) => EndedIn(log'[r], status)
  BY DEF Grows, EndedIn
<1> QED BY <1>1 DEF RequestEnded, RunEnded

\* What a step must show: the log grows, and what changed has its end recorded.
LEMMA EndKept ==
  ASSUME IInv, EndInv, Grows, UNCHANGED registry,
         \A r \in RunIds : runs'[r] # None =>
           runs'[r] = runs[r] \/ RunEnded(log'[r], runs'[r]),
         \A r \in RunIds : store'[r] # None =>
           store'[r] = store[r] \/ EndedIn(store'[r].obs, store'[r].status),
         \A w \in Workers : ~Idle(w)' =>
           req'[w] = req[w] \/ RequestEnded(log'[req'[w].run], req'[w])
  PROVE  EndInv'
<1>1. \A r \in RunIds : runs'[r] # None => RunEnded(log'[r], runs'[r])
  BY EndStays DEF EndInv
<1>2. \A r \in RunIds : store'[r] # None => EndedIn(store'[r].obs, store'[r].status)
  BY DEF EndInv
<1>3. ASSUME NEW w \in Workers, ~Idle(w)'
      PROVE  RequestEnded(log'[req'[w].run], req'[w])
  <2>1. CASE req'[w] = req[w]
    BY <1>3, <2>1, EndStays, InFlight DEF EndInv, Idle
  <2> QED BY <1>3, <2>1
<1> QED BY <1>1, <1>2, <1>3 DEF EndInv, Idle, RunEnded, TypesKnown, EndedIn, RequestEnded,
                               Explains

LEMMA RespondEnds ==
  ASSUME IInv, EndInv, NEW w \in Workers, Respond(w), Grows, UNCHANGED <<registry, runs>>,
         \A r \in RunIds : store'[r] # None =>
           store'[r] = store[r] \/ EndedIn(store'[r].obs, store'[r].status)
  PROVE  EndInv'
<1>1. \A v \in Workers : ~Idle(v)' => req'[v] = req[v]
  BY DEF IInv, ReqOK, Respond, Idle
<1> QED BY <1>1, EndKept

LEMMA ContinueEnds ==
  ASSUME IInv, EndInv, NEW w \in Workers, ~Idle(w), NEW point \in Points \ {"trace", "put"},
         NEW x, Continue(w, point, x), RunEnded(log'[req[w].run], x), Grows,
         UNCHANGED <<registry, store>>,
         \A r \in RunIds : runs'[r] # None =>
           runs'[r] = runs[r] \/ RunEnded(log'[r], runs'[r])
  PROVE  EndInv'
<1>1. req[w] \in Request /\ req \in [Workers -> Request \cup {None}]
  BY InFlight DEF IInv, ReqOK
<1> DEFINE q == [req[w] EXCEPT !.at = point, !.st = x]
<1>2. /\ q.at = point /\ q.st = x /\ q.run = req[w].run
      /\ req' = [req EXCEPT ![w] = q]
  BY <1>1 DEF Continue, Request
<1> HIDE DEF q
<1>3. \A v \in Workers : req'[v] = req[v] \/ RequestEnded(log'[req'[v].run], req'[v])
  BY <1>1, <1>2 DEF RequestEnded, RunEnded
<1> QED BY <1>3, EndKept

LEMMA ServeEnds ==
  ASSUME IInv, EndInv, NEW w \in Workers, NEW r \in RunIds,
         NEW point \in Points \ {"trace", "put"}, NEW x, NEW s, NEW o,
         Serve(w, point, r, x, s, o), RunEnded(log'[r], x), Grows,
         UNCHANGED <<registry, runs, store>>
  PROVE  EndInv'
<1>1. \A v \in Workers : req'[v] = req[v] \/ RequestEnded(log'[req'[v].run], req'[v])
  BY DEF IInv, ReqOK, Serve, RequestEnded, RunEnded
<1> QED BY <1>1, EndKept

\* A state a handler holds, unless it has yet to trace a transition.
LEMMA HeldEnded ==
  ASSUME IInv, EndInv, NEW w \in Workers, ~Idle(w)
  PROVE  /\ TypesKnown(req[w].st) /\ RequestEnded(log[req[w].run], req[w])
         /\ req[w].at \notin {"trace", "put"} => RunEnded(log[req[w].run], req[w].st)
BY DEF EndInv, RequestEnded, RunEnded

\* The observation just appended ends the run.
LEMMA AppendedEnds ==
  ASSUME TypeOK, NEW r \in RunIds, NEW o, AppendObs(r, o), NEW status, Accounts(o, status)
  PROVE  EndedIn(log'[r], status)
BY AppendGrows DEF EndedIn

-----------------------------------------------------------------------------

LEMMA ArriveEnds ==
  ASSUME IInv, EndInv, NEW w \in Workers, Arrive(w)
  PROVE  EndInv'
<1>1. ASSUME NEW r \in RunIds, NEW c \in Contracts, NEW auth \in BOOLEAN, Start(w, r, c, auth)
      PROVE  EndInv'
  <2> DEFINE x == NewRun(c, registry[c], auth)
             y == [x EXCEPT !.count = CountOf(r)]
  <2>1. registry[c] \in Flow /\ registry[c] \in KnownFlows /\ ValidFlow(registry[c])
    BY <1>1 DEF Start, IInv, TypeOK, EndInv
  <2>2. x \in RunState /\ TypesKnown(x) /\ x.status = "accepted"
    BY <2>1, NewRunEnded, NewRunType
  <2>3. /\ AppendObs(r, Observe("started", x.step, 0, "none", "none"))
        /\ Serve(w, "insert", r, y, x.step, "none") /\ UNCHANGED <<registry, runs, store>>
    BY <1>1 DEF Start
  <2> HIDE DEF x
  <2>4. y.steps = x.steps /\ y.status = "accepted"
    BY <2>2 DEF RunState
  <2> HIDE DEF y
  <2>5. RunEnded(log'[r], y)
    BY <2>2, <2>4 DEF RunEnded, TypesKnown, EndedIn, Terminals
  <2>6. Grows
    BY <2>3, AppendGrows DEF IInv
  <2> QED BY <2>3, <2>5, <2>6, ServeEnds DEF Points
<1>2. ASSUME NEW r \in RunIds, runs[r] # None, UNCHANGED <<registry, runs, log, store>>,
             NEW point \in Points \ {"trace", "put"}, NEW s, NEW o,
             Serve(w, point, r, runs[r], s, o)
      PROVE  EndInv'
  <2>1. Grows /\ RunEnded(log'[r], runs[r])
    BY <1>2 DEF Grows, EndInv
  <2> QED BY <1>2, <2>1, ServeEnds
<1>3. ASSUME NEW r \in RunIds, EvidenceRead(w, r)
      PROVE  EndInv'
  BY <1>2, <1>3 DEF EvidenceRead, Points
<1>4. ASSUME NEW r \in RunIds, NEW s \in Steps, NEW op \in Ops, ExecuteRead(w, r, s, op)
      PROVE  EndInv'
  BY <1>2, <1>4 DEF ExecuteRead, Points
<1>5. ASSUME NEW r \in RunIds, NEW s \in Steps, NEW d \in Decisions, ResolveRead(w, r, s, d)
      PROVE  EndInv'
  BY <1>2, <1>5 DEF ResolveRead, Points
<1> QED BY <1>1, <1>3, <1>4, <1>5 DEF Arrive

LEMMA InsertEnds ==
  ASSUME IInv, EndInv, NEW w \in Workers, Insert(w)
  PROVE  EndInv'
<1>1. ~Idle(w) /\ req[w].at = "insert" /\ Continue(w, "persist", req[w].st) /\ req[w].run \in RunIds
  BY InFlight DEF Insert
<1>2. RunEnded(log[req[w].run], req[w].st) /\ UNCHANGED <<registry, log, store>> /\ Grows
  BY <1>1, HeldEnded DEF Insert, Grows
<1>3. \A r \in RunIds : runs'[r] # None => runs'[r] = runs[r] \/ RunEnded(log'[r], runs'[r])
  BY <1>2 DEF Insert, IInv, TypeOK
<1> QED BY <1>1, <1>2, <1>3, ContinueEnds DEF Points

LEMMA PersistEnds ==
  ASSUME IInv, EndInv, NEW w \in Workers, PersistRead(w) \/ PersistPut(w) \/ PersistFail(w)
  PROVE  EndInv'
<1>1. /\ ~Idle(w) /\ UNCHANGED <<registry, runs, log>> /\ Grows /\ req[w] \in Request
      /\ req[w].run \in RunIds /\ req[w].st \in RunState
  BY InFlight DEF PersistRead, PersistPut, PersistFail, Grows
<1>2. CASE PersistRead(w)
  <2>1. RunEnded(log[req[w].run], req[w].st)
    BY <1>1, <1>2, HeldEnded DEF PersistRead
  <2> DEFINE q == [req[w] EXCEPT !.at = "put", !.snap = log[req[w].run]]
  <2>2. /\ q.at = "put" /\ q.st = req[w].st /\ q.snap = log[req[w].run]
        /\ req' = [req EXCEPT ![w] = q]
    BY <1>1, <1>2 DEF PersistRead, Request
  <2> HIDE DEF q
  <2>3. \A v \in Workers : req'[v] = req[v] \/ RequestEnded(log'[req'[v].run], req'[v])
    BY <2>1, <2>2 DEF IInv, ReqOK, RequestEnded, RunEnded
  <2> QED BY <1>1, <1>2, <2>3, EndKept DEF PersistRead
<1>3. CASE PersistPut(w)
  <2> DEFINE p == [status |-> EvidenceStatus(req[w].st), obs |-> req[w].snap]
  <2>1. EndedIn(req[w].snap, req[w].st.status)
    BY <1>1, <1>3, HeldEnded DEF PersistPut, RequestEnded
  <2>2. EndedIn(p.obs, p.status)
    BY <2>1 DEF EvidenceStatus, IsTerminal, EndedIn, Terminals
  <2>3. store' = [store EXCEPT ![req[w].run] = p] /\ Respond(w)
    BY <1>3 DEF PersistPut
  <2> HIDE DEF p
  <2>4. \A r \in RunIds : store'[r] = store[r] \/ EndedIn(store'[r].obs, store'[r].status)
    BY <2>2, <2>3 DEF IInv, TypeOK
  <2> QED BY <1>1, <2>3, <2>4, RespondEnds
<1>4. CASE PersistFail(w)
  BY <1>1, <1>4, RespondEnds DEF PersistFail
<1> QED BY <1>2, <1>3, <1>4

LEMMA AdmitEnds ==
  ASSUME IInv, EndInv, NEW w \in Workers, ExecuteAdmit(w)
  PROVE  EndInv'
<1> DEFINE q == req[w]
<1>1. /\ ~Idle(w) /\ q \in Request /\ q.run \in RunIds /\ q.st \in RunState /\ q.at = "admit"
      /\ UNCHANGED <<registry, runs, store>> /\ req \in [Workers -> Request \cup {None}]
      /\ \E o : AppendObs(q.run, o)
  BY InFlight DEF ExecuteAdmit, IInv, ReqOK
<1>2. Grows /\ RunEnded(log'[q.run], q.st)
  BY <1>1, AppendGrows, HeldEnded, EndStays DEF IInv
<1>3. CASE Respond(w)
  BY <1>1, <1>2, <1>3, RespondEnds
<1>4. ASSUME NEW point \in {"record", "call"},
             req' = [req EXCEPT ![w] = [Admitted(w) EXCEPT !.at = point]]
      PROVE  EndInv'
  <2>1. /\ req'[w].at = point /\ req'[w].run = q.run
        /\ req'[w].st.steps = q.st.steps /\ req'[w].st.status = q.st.status
        /\ \A v \in Workers \ {w} : req'[v] = req[v]
    BY <1>1, <1>4 DEF Admitted, Request, RunState
  <2> HIDE DEF q
  <2>2. RequestEnded(log'[req'[w].run], req'[w])
    BY <1>2, <2>1 DEF RequestEnded, RunEnded, TypesKnown
  <2> QED BY <1>1, <1>2, <2>1, <2>2, EndKept
<1> QED BY <1>1, <1>3, <1>4 DEF ExecuteAdmit

LEMMA RecordEnds ==
  ASSUME IInv, EndInv, NEW w \in Workers,
         \/ ExecuteRecord(w) \/ ExecuteNoTransition(w) \/ ExecuteLostTarget(w) \/ ExecuteTrace(w)
  PROVE  EndInv'
<1> DEFINE q == req[w]
           z == StepDone(q.st)
<1>1. /\ ~Idle(w) /\ q \in Request /\ q.run \in RunIds /\ q.st \in RunState
      /\ Coherent(q.st) /\ q.target \in Target \cup {None} /\ TypeOK
      /\ UNCHANGED <<registry, runs, store>> /\ req \in [Workers -> Request \cup {None}]
  BY InFlight DEF ExecuteRecord, ExecuteNoTransition, ExecuteLostTarget, ExecuteTrace, IInv, ReqOK
<1>2. Grows
  <2>1. UNCHANGED log \/ \E o : AppendObs(q.run, o)
    BY DEF ExecuteRecord, ExecuteNoTransition, ExecuteLostTarget, ExecuteTrace
  <2> QED BY <1>1, <2>1, AppendGrows DEF Grows
<1>3. /\ TypesKnown(q.st)
      /\ q.at = "trace" => Explains(q.target, q.st.status)
      /\ z \in RunState /\ SameTypes(q.st, z) /\ TypesKnown(z)
      /\ \A t \in Steps : z.steps[t] # None <=> q.st.steps[t] # None
  <2>1. TypesKnown(q.st) /\ (q.at = "trace" => Explains(q.target, q.st.status))
    BY <1>1, HeldEnded DEF RequestEnded
  <2>2. /\ z \in RunState /\ SameTypes(q.st, z)
        /\ \A t \in Steps : z.steps[t] # None <=> q.st.steps[t] # None
    BY <1>1, StepDoneType, StepDoneKeeps DEF Coherent
  <2> HIDE DEF z
  <2> QED BY <2>1, <2>2, SameTypesKnown
<1>4. CASE ExecuteRecord(w)
  <2> DEFINE y == ApplyTransition(z, q.target)
             x == [y EXCEPT !.adm = "OPERATION_ALLOWED", !.count = CountOf(q.run)]
             n == [q EXCEPT !.at = "trace", !.st = x]
  <2>1. q.target \in Target /\ Applicable(z, q.target) /\ z.steps[z.step] # None
    <3>1. q.target # None /\ Applicable(q.st, q.target)
      BY <1>4 DEF ExecuteRecord
    <3>2. z.step = q.st.step /\ q.st.step \in Steps /\ q.st.steps[q.st.step] # None
      BY <1>1, StepDoneType DEF Coherent, RunState
    <3> HIDE DEF z, q
    <3> QED BY <1>1, <1>3, <3>1, <3>2 DEF Applicable
  <2>2. y \in RunState /\ TypesKnown(y) /\ Explains(q.target, y.status)
    <3> HIDE DEF z
    <3> QED BY <1>3, <2>1, ApplyTransitionType, TransitionExplains, SameTypesKnown
  <2>3. req' = [req EXCEPT ![w] = n]
    BY <1>4 DEF ExecuteRecord, Continue
  <2> HIDE DEF y
  <2>4. x.steps = y.steps /\ x.status = y.status
    BY <2>2 DEF RunState
  <2> HIDE DEF x
  <2>5. n.at = "trace" /\ n.st = x /\ n.target = q.target
    BY <1>1 DEF Request
  <2> HIDE DEF n, q
  <2>6. RequestEnded(log'[n.run], n)
    BY <2>2, <2>4, <2>5 DEF RequestEnded, TypesKnown, Explains
  <2>7. \A v \in Workers : req'[v] = req[v] \/ RequestEnded(log'[req'[v].run], req'[v])
    BY <1>1, <2>3, <2>6
  <2> QED BY <1>1, <1>2, <2>7, EndKept
<1>5. CASE ExecuteNoTransition(w)
  <2> DEFINE o == Observe("transition_failed", q.from, NextRef(q.st), q.outcome, "none")
             x == [FailRun(z) EXCEPT !.count = CountOf(q.run)]
  <2>1. AppendObs(q.run, o) /\ Continue(w, "insert", x)
    BY <1>5 DEF ExecuteNoTransition
  <2>2. o.event = "transition_failed"
    BY DEF Observe
  <2> HIDE DEF z, o
  <2>3. x.steps = z.steps /\ x.status = "failed"
    BY <1>3 DEF FailRun, RunState
  <2> HIDE DEF x, q
  <2>4. RunEnded(log'[q.run], x)
    BY <1>1, <1>3, <2>1, <2>2, <2>3, AppendedEnds DEF RunEnded, TypesKnown, Accounts
  <2> QED BY <1>1, <1>2, <2>1, <2>4, ContinueEnds DEF Points, q
<1>6. CASE ExecuteLostTarget(w)
  BY <1>1, <1>2, <1>6, RespondEnds DEF ExecuteLostTarget
<1>7. CASE ExecuteTrace(w)
  <2> DEFINE o == Observe("transition_applied", q.from, NextRef(q.st), q.outcome, q.target)
             x == [q.st EXCEPT !.count = CountOf(q.run)]
  <2>1. AppendObs(q.run, o) /\ Continue(w, "insert", x) /\ q.at = "trace"
    BY <1>7 DEF ExecuteTrace
  <2>2. o.event = "transition_applied" /\ o.detail = q.target
    BY DEF Observe
  <2>3. x.steps = q.st.steps /\ x.status = q.st.status
    BY <1>1 DEF RunState
  <2> HIDE DEF x, o, q, z
  <2>4. RunEnded(log'[q.run], x)
    BY <1>1, <1>3, <2>1, <2>2, <2>3, AppendedEnds
       DEF RunEnded, TypesKnown, Accounts, Explains, EndedIn
  <2> QED BY <1>1, <1>2, <2>1, <2>4, ContinueEnds DEF Points, q
<1> QED BY <1>4, <1>5, <1>6, <1>7

LEMMA DecideEnds ==
  ASSUME IInv, EndInv, NEW w \in Workers,
         Approve(w) \/ Reject(w) \/ RejectNoTransition(w) \/ RecordReject(w)
  PROVE  EndInv'
<1> DEFINE q == req[w]
           z == SetStepStatus(q.st, q.st.step, "blocked")
<1>1. /\ ~Idle(w) /\ q \in Request /\ q.run \in RunIds /\ q.st \in RunState
      /\ q.st.step \in Steps /\ q.st.steps[q.st.step] # None /\ TypeOK
      /\ q.at \in {"decide", "resolved"} /\ RequestSound(q)
      /\ UNCHANGED <<registry, runs, store>> /\ req \in [Workers -> Request \cup {None}]
      /\ \E o : AppendObs(q.run, o)
  <2>1. /\ ~Idle(w) /\ q.at \in {"decide", "resolved"} /\ UNCHANGED <<registry, runs, store>>
        /\ \E o : AppendObs(q.run, o)
    BY DEF Approve, Reject, RejectNoTransition, RecordReject, RecordResolution
  <2> QED BY <2>1, InFlight DEF IInv, ReqOK, Coherent
<1>2. Grows /\ RunEnded(log[q.run], q.st) /\ RunEnded(log'[q.run], q.st)
  BY <1>1, AppendGrows, HeldEnded, EndStays
<1>3. CASE Approve(w)
  <2> DEFINE y == SetStepStatus(q.st, q.st.step, "ready")
             x == [y EXCEPT !.status = "in_progress", !.nextOp = q.st.steps[q.st.step].op,
                            !.adm = "HUMAN_GATE_APPROVED"]
             g == Resolved(q.st.gate, "approve")
             u == [x EXCEPT !.gate = g, !.count = CountOf(q.run)]
  <2>1. Continue(w, "insert", u)
    BY <1>3 DEF Approve, RecordResolution
  <2>2. y \in RunState /\ SameTypes(q.st, y)
    BY <1>1, SetStatusKeeps DEF StepStatus
  <2> HIDE DEF y, g
  <2>3. u.steps = y.steps /\ u.status = "in_progress"
    BY <2>2 DEF RunState
  <2> HIDE DEF u, q
  <2>4. TypesKnown(y)
    BY <1>2, <2>2, SameTypesKnown DEF RunEnded
  <2>5. RunEnded(log'[q.run], u)
    BY <2>3, <2>4 DEF RunEnded, TypesKnown, EndedIn, Terminals
  <2> QED BY <1>1, <1>2, <2>1, <2>5, ContinueEnds DEF Points, q
<1>4. CASE Reject(w)
  <2> DEFINE t == RejectTarget(w)
             o == Observe("transition_applied", q.st.gate.step, NextRef(z), "reject", t)
             y == IF Applicable(z, t) THEN ApplyTransition(z, t) ELSE z
             x == [y EXCEPT !.adm = "HUMAN_GATE_REJECTED", !.count = CountOf(q.run)]
             n == [q EXCEPT !.at = "resolved", !.target = t, !.st = x]
  <2>1. AppendObs(q.run, o) /\ t # None /\ req' = [req EXCEPT ![w] = n]
    BY <1>4 DEF Reject
  <2>2. o.event = "transition_applied" /\ o.detail = t
    BY DEF Observe
  <2>3. t \in Target
    BY <1>1, <2>1, InFlight, ResolveType DEF RejectTarget, Outcomes
  <2>4. z \in RunState /\ SameTypes(q.st, z) /\ z.status = q.st.status /\ z.step = q.st.step
    BY <1>1, SetStatusKeeps DEF StepStatus
  <2>5. TypesKnown(z) /\ z.steps[z.step] # None
    <3>1. z.steps[q.st.step] # None
      BY <1>1, StatusAlone DEF StepStatus
    <3> HIDE DEF z, q
    <3> QED BY <1>2, <2>4, <3>1, SameTypesKnown DEF RunEnded
  <2>6. y \in RunState /\ TypesKnown(y) /\ EndedIn(log'[q.run], y.status)
    <3> HIDE DEF z, t, o, q
    <3>1. CASE Applicable(z, t)
      <4>1. /\ y \in RunState /\ TypesKnown(y) /\ Explains(t, y.status)
        BY <2>3, <2>4, <2>5, <3>1, ApplyTransitionType, TransitionExplains, SameTypesKnown
      <4> HIDE DEF y
      <4>2. y.status \in Terminals => Accounts(o, y.status)
        BY <2>2, <4>1 DEF Accounts, Explains
      <4> QED BY <1>1, <2>1, <4>1, <4>2, AppendedEnds DEF EndedIn
    <3>2. CASE ~Applicable(z, t)
      BY <1>2, <2>4, <2>5, <3>2 DEF RunEnded
    <3> QED BY <3>1, <3>2
  <2> HIDE DEF y, z, t, o
  <2>7. x.steps = y.steps /\ x.status = y.status
    BY <2>6 DEF RunState
  <2> HIDE DEF x
  <2>8. n.at = "resolved" /\ n.st = x /\ n.run = q.run
    BY <1>1 DEF Request
  <2> HIDE DEF n, q
  <2>9. \A v \in Workers : req'[v] = req[v] \/ RequestEnded(log'[req'[v].run], req'[v])
    BY <1>1, <2>1, <2>6, <2>7, <2>8 DEF RequestEnded, TypesKnown
  <2> QED BY <1>1, <1>2, <2>9, EndKept
<1>5. CASE RejectNoTransition(w)
  <2> DEFINE o == Observe("transition_failed", q.st.gate.step, NextRef(q.st), "reject", "none")
             x == [FailRun(q.st) EXCEPT !.count = CountOf(q.run)]
  <2>1. AppendObs(q.run, o) /\ Continue(w, "insert", x)
    BY <1>5 DEF RejectNoTransition
  <2>2. o.event = "transition_failed"
    BY DEF Observe
  <2>3. x.steps = q.st.steps /\ x.status = "failed"
    BY <1>1 DEF FailRun, RunState
  <2> HIDE DEF x, o, q, z
  <2>4. RunEnded(log'[q.run], x)
    BY <1>1, <1>2, <2>1, <2>2, <2>3, AppendedEnds DEF RunEnded, TypesKnown, Accounts
  <2> QED BY <1>1, <1>2, <2>1, <2>4, ContinueEnds DEF Points, q
<1>6. CASE RecordReject(w)
  <2> DEFINE g == Resolved(GateForStep(q.from), "reject")
             x == [q.st EXCEPT !.gate = g, !.count = CountOf(q.run)]
  <2>1. Continue(w, "insert", x)
    BY <1>6 DEF RecordReject, RecordResolution
  <2> HIDE DEF g
  <2>2. x.steps = q.st.steps /\ x.status = q.st.status
    BY <1>1 DEF RunState
  <2> HIDE DEF x, q, z
  <2>3. RunEnded(log'[q.run], x)
    BY <1>2, <2>2 DEF RunEnded, TypesKnown
  <2> QED BY <1>1, <1>2, <2>1, <2>3, ContinueEnds DEF Points, q
<1> QED BY <1>3, <1>4, <1>5, <1>6

LEMMA HandleEnds ==
  ASSUME IInv, EndInv, NEW w \in Workers, Handle(w)
  PROVE  EndInv'
<1>1. CASE Insert(w)
  BY <1>1, InsertEnds
<1>2. CASE PersistRead(w) \/ PersistPut(w) \/ PersistFail(w)
  BY <1>2, PersistEnds
<1>3. CASE EvidenceAnswer(w) \/ ExecuteDeny(w) \/ ConnectorErr(w)
  BY <1>3, RespondEnds DEF EvidenceAnswer, ExecuteDeny, ConnectorErr, Grows
<1>4. CASE ExecuteAdmit(w)
  BY <1>4, AdmitEnds
<1>5. CASE ConnectorOk(w)
  <2>1. /\ ~Idle(w) /\ req[w].at = "call" /\ Continue(w, "record", req[w].st)
        /\ UNCHANGED <<registry, runs, log, store>> /\ Grows
    BY <1>5 DEF ConnectorOk, Grows
  <2>2. RunEnded(log'[req[w].run], req[w].st)
    BY <2>1, HeldEnded
  <2> QED BY <2>1, <2>2, ContinueEnds DEF Points
<1>6. CASE \/ ExecuteRecord(w) \/ ExecuteNoTransition(w) \/ ExecuteLostTarget(w)
           \/ ExecuteTrace(w)
  BY <1>6, RecordEnds
<1>7. CASE Approve(w) \/ Reject(w) \/ RejectNoTransition(w) \/ RecordReject(w)
  BY <1>7, DecideEnds
<1> QED BY <1>1, <1>2, <1>3, <1>4, <1>5, <1>6, <1>7 DEF Handle

LEMMA GetNextEnds ==
  ASSUME IInv, EndInv, NEW r \in RunIds, GetNext(r)
  PROVE  EndInv'
<1> DEFINE a == Admission(runs[r], registry[runs[r].contract])
           x == [runs[r] EXCEPT !.adm = a]
<1>1. /\ runs[r] \in RunState /\ RunEnded(log[r], runs[r]) /\ Grows
      /\ runs' = [runs EXCEPT ![r] = x] /\ UNCHANGED <<registry, log, store, req>>
  BY InMap DEF GetNext, EndInv, Grows
<1> HIDE DEF a
<1>2. x.steps = runs[r].steps /\ x.status = runs[r].status
  BY <1>1 DEF RunState
<1> HIDE DEF x
<1>3. RunEnded(log'[r], x)
  BY <1>1, <1>2 DEF RunEnded, TypesKnown
<1>4. \A p \in RunIds : runs'[p] = runs[p] \/ RunEnded(log'[p], runs'[p])
  BY <1>1, <1>3 DEF IInv, TypeOK
<1> QED BY <1>1, <1>4, EndKept

LEMMA RegisterEnds ==
  ASSUME IInv, EndInv, NEW c \in Contracts, NEW f \in Submissions, Register(c, f)
  PROVE  EndInv'
<1>1. \A d \in Contracts : registry'[d] # None => registry'[d] \in KnownFlows
  BY DEF Register, EndInv, KnownFlows, IInv, TypeOK
<1> QED BY <1>1 DEF Register, EndInv, Idle, RunEnded, RequestEnded, EndedIn

LEMMA RestartEnds ==
  ASSUME EndInv, Restart
  PROVE  EndInv'
<1>1. \A d \in Contracts : registry'[d] # None => registry'[d] \in KnownFlows
  BY DEF Restart, KnownFlows
<1> QED BY <1>1 DEF Restart, EndInv, Idle

LEMMA NextEnds == IInv /\ EndInv /\ [Next]_vars => EndInv'
<1> SUFFICES ASSUME IInv, EndInv, [Next]_vars PROVE EndInv'
  OBVIOUS
<1>1. CASE UNCHANGED vars
  BY <1>1 DEF vars, EndInv, Idle
<1>2. ASSUME NEW w \in Workers, Arrive(w) \/ Handle(w) PROVE EndInv'
  BY <1>2, ArriveEnds, HandleEnds
<1> QED BY <1>1, <1>2, GetNextEnds, RegisterEnds, RestartEnds DEF Next

\* A run that says it ended has what ended it in its log, in the map, in its
\* snapshot and in the answer of an evidence request that read the status first.
THEOREM EndAlwaysRecorded == Spec => []EndIsRecorded
<1>1. Init => EndInv
  BY DEF Init, EndInv, KnownFlows, Idle
<1>2. Spec => []EndInv
  BY <1>1, NextEnds, IInvAlways, PTL DEF Spec
<1>3. IInv /\ EndInv => EndIsRecorded
  BY HeldEnded, EndStays DEF EndInv, EndIsRecorded, RunEnded, RequestEnded, EndedIn, Evidence
<1> QED BY <1>2, <1>3, IInvAlways, PTL

-----------------------------------------------------------------------------
(* Gates.  An approved gate that anybody holds has its approval in the     *)
(* log, and so has the step a handler is about to leave by an approve      *)
(* transition.                                                             *)

ApprovedIn(l, s) == \E j \in DOMAIN l : Approves(l[j], s)

GateIn(l, x) == x.gate # None /\ x.gate.decision = "approve" => ApprovedIn(l, x.gate.step)

Leaving == {"call", "record", "trace"}

RequestIn(l, q) == /\ GateIn(l, q.st)
                   /\ q.at = "admit" => q.from = q.st.step
                   /\ q.at \in Leaving /\ q.outcome = "approve" => ApprovedIn(l, q.from)

GateInv == /\ \A r \in RunIds : runs[r] # None => GateIn(log[r], runs[r])
           /\ \A w \in Workers : ~Idle(w) => RequestIn(log[req[w].run], req[w])
           /\ ApprovalPrecedesGatedStep

-----------------------------------------------------------------------------
(* What a step does to it *)

LEMMA ApprovalStays ==
  ASSUME Grows, NEW r \in RunIds
  PROVE  /\ \A s : ApprovedIn(log[r], s) => ApprovedIn(log'[r], s)
         /\ \A x : GateIn(log[r], x) => GateIn(log'[r], x)
         /\ \A q : RequestIn(log[r], q) => RequestIn(log'[r], q)
<1>1. \A s : ApprovedIn(log[r], s) => ApprovedIn(log'[r], s)
  BY DEF Grows, ApprovedIn
<1> QED BY <1>1 DEF GateIn, RequestIn

LEMMA SameLogGrows ==
  ASSUME GateInv, UNCHANGED log
  PROVE  Grows /\ ApprovalPrecedesGatedStep'
BY DEF Grows, GateInv, ApprovalPrecedesGatedStep

\* An observation that leaves a gated step comes after its approval.
LEMMA AppendPreceded ==
  ASSUME IInv, GateInv, NEW r \in RunIds, NEW o, AppendObs(r, o),
         o.event = "transition_applied" /\ o.outcome = "approve" => ApprovedIn(log[r], o.step)
  PROVE  Grows /\ ApprovalPrecedesGatedStep'
<1>1. /\ TypeOK /\ Grows
      /\ log'[r][CountOf(r)] = o
      /\ DOMAIN log'[r] = DOMAIN log[r] \cup {CountOf(r)}
      /\ \A q \in RunIds \ {r} : log'[q] = log[q]
  BY AppendGrows DEF IInv
<1>2. DOMAIN log[r] = 1 .. CountOf(r) - 1 /\ CountOf(r) \in Nat
  BY <1>1 DEF CountOf, TypeOK
<1>3. SUFFICES ASSUME NEW q \in RunIds, NEW i \in DOMAIN log'[q],
                      log'[q][i].event = "transition_applied", log'[q][i].outcome = "approve"
               PROVE  \E j \in 1 .. (i - 1) : Approves(log'[q][j], log'[q][i].step)
  BY <1>1 DEF ApprovalPrecedesGatedStep
<1>4. CASE q = r /\ i = CountOf(r)
  <2>1. PICK j \in DOMAIN log[r] : Approves(log[r][j], o.step)
    BY <1>1, <1>3, <1>4 DEF ApprovedIn
  <2> QED BY <1>1, <1>2, <1>4, <2>1 DEF Grows
<1>5. CASE i \in DOMAIN log[q]
  <2>1. log'[q][i] = log[q][i]
    BY <1>1, <1>5 DEF Grows
  <2>2. PICK j \in 1 .. (i - 1) : Approves(log[q][j], log[q][i].step)
    BY <1>3, <1>5, <2>1 DEF GateInv, ApprovalPrecedesGatedStep
  <2>3. j \in DOMAIN log[q]
    BY <1>1, <1>5, <2>2 DEF TypeOK
  <2> QED BY <1>1, <2>1, <2>2, <2>3 DEF Grows
<1> QED BY <1>1, <1>3, <1>4, <1>5

\* One request changes.
LEMMA OneRequest ==
  ASSUME IInv, GateInv, Grows, ApprovalPrecedesGatedStep', NEW w \in Workers,
         \A r \in RunIds : runs'[r] # None => GateIn(log'[r], runs'[r]),
         \A v \in Workers \ {w} : req'[v] = req[v],
         req'[w] # None => req'[w].run \in RunIds /\ RequestIn(log'[req'[w].run], req'[w])
  PROVE  GateInv'
<1>2. ASSUME NEW v \in Workers, req'[v] # None
      PROVE  RequestIn(log'[req'[v].run], req'[v])
  <2>1. CASE v = w
    BY <1>2, <2>1
  <2>2. CASE v # w
    <3>1. req'[v] = req[v] /\ ~Idle(v)
      BY <1>2, <2>2 DEF Idle
    <3>2. req[v].run \in RunIds /\ RequestIn(log[req[v].run], req[v])
      BY <3>1, InFlight DEF GateInv
    <3> QED BY <3>1, <3>2, ApprovalStays
  <2> QED BY <2>1, <2>2
<1> QED BY <1>2 DEF GateInv, Idle

LEMMA MapKept ==
  ASSUME GateInv, Grows, UNCHANGED runs
  PROVE  \A r \in RunIds : runs'[r] # None => GateIn(log'[r], runs'[r])
BY ApprovalStays DEF GateInv

LEMMA RespondGate ==
  ASSUME IInv, GateInv, Grows, ApprovalPrecedesGatedStep', UNCHANGED runs,
         NEW w \in Workers, Respond(w)
  PROVE  GateInv'
<1>1. req'[w] = None /\ \A v \in Workers \ {w} : req'[v] = req[v]
  BY DEF Respond, IInv, ReqOK
<1> QED BY <1>1, MapKept, OneRequest

LEMMA ContinueGate ==
  ASSUME IInv, GateInv, Grows, ApprovalPrecedesGatedStep', UNCHANGED runs,
         NEW w \in Workers, ~Idle(w), NEW point \in Points \ {"admit"}, NEW x,
         point \in Leaving => req[w].at \in Leaving,
         GateIn(log'[req[w].run], x), Continue(w, point, x)
  PROVE  GateInv'
<1> DEFINE q == [req[w] EXCEPT !.at = point, !.st = x]
<1>1. /\ req[w] \in Request /\ req \in [Workers -> Request \cup {None}]
      /\ req[w].run \in RunIds /\ RequestIn(log[req[w].run], req[w])
  BY InFlight DEF IInv, ReqOK, GateInv
<1>2. /\ q.at = point /\ q.st = x /\ q.run = req[w].run /\ q.from = req[w].from
      /\ q.outcome = req[w].outcome
      /\ req' = [req EXCEPT ![w] = q]
  BY <1>1 DEF Continue, Request
<1> HIDE DEF q
<1>3. RequestIn(log'[q.run], q)
  BY <1>1, <1>2, ApprovalStays DEF RequestIn
<1> QED BY <1>1, <1>2, <1>3, MapKept, OneRequest

LEMMA ServeGate ==
  ASSUME IInv, GateInv, Grows, ApprovalPrecedesGatedStep', UNCHANGED runs,
         NEW w \in Workers, NEW r \in RunIds, NEW point \in Points \ Leaving,
         NEW x, NEW s, NEW o, GateIn(log'[r], x), point = "admit" => s = x.step,
         Serve(w, point, r, x, s, o)
  PROVE  GateInv'
<1> DEFINE q == [at |-> point, run |-> r, st |-> x, from |-> s,
                 outcome |-> o, target |-> None, snap |-> <<>>]
<1>1. q.at = point /\ q.st = x /\ q.run = r /\ q.from = s
  OBVIOUS
<1>2. req' = [req EXCEPT ![w] = q] /\ req \in [Workers -> Request \cup {None}]
  BY DEF Serve, IInv, ReqOK
<1> HIDE DEF q
<1>3. RequestIn(log'[q.run], q)
  BY <1>1 DEF RequestIn
<1> QED BY <1>1, <1>2, <1>3, MapKept, OneRequest

-----------------------------------------------------------------------------
(* One lemma for each group of actions *)

LEMMA ArriveGate ==
  ASSUME IInv, GateInv, NEW w \in Workers, Arrive(w)
  PROVE  GateInv'
<1>1. ASSUME NEW r \in RunIds, NEW c \in Contracts, NEW auth \in BOOLEAN, Start(w, r, c, auth)
      PROVE  GateInv'
  <2> DEFINE x == NewRun(c, registry[c], auth)
             y == [x EXCEPT !.count = CountOf(r)]
             o == Observe("started", x.step, 0, "none", "none")
  <2>1. AppendObs(r, o) /\ Serve(w, "insert", r, y, x.step, "none") /\ UNCHANGED runs
    BY <1>1 DEF Start
  <2>2. o.event = "started"
    BY DEF Observe
  <2>3. x \in RunState /\ x.gate = None
    BY <1>1, NewRunType DEF Start, IInv, TypeOK
  <2> HIDE DEF x, o
  <2>4. y.gate = None
    BY <2>3 DEF RunState
  <2> HIDE DEF y
  <2>5. Grows /\ ApprovalPrecedesGatedStep'
    BY <2>1, <2>2, AppendPreceded
  <2>6. GateIn(log'[r], y)
    BY <2>4 DEF GateIn
  <2> QED BY <2>1, <2>5, <2>6, ServeGate DEF Points, Leaving
<1>2. ASSUME NEW r \in RunIds, NEW point \in {"admit", "decide", "evidence"}, NEW s, NEW o,
             runs[r] # None, Serve(w, point, r, runs[r], s, o), UNCHANGED <<runs, log>>,
             point = "admit" => s = runs[r].step
      PROVE  GateInv'
  <2>1. GateIn(log'[r], runs[r])
    BY <1>2 DEF GateInv
  <2> QED BY <1>2, <2>1, SameLogGrows, ServeGate DEF Points, Leaving
<1>3. ASSUME NEW r \in RunIds, EvidenceRead(w, r)
      PROVE  GateInv'
  BY <1>2, <1>3 DEF EvidenceRead
<1>4. ASSUME NEW r \in RunIds, NEW s \in Steps, NEW op \in Ops, ExecuteRead(w, r, s, op)
      PROVE  GateInv'
  BY <1>2, <1>4 DEF ExecuteRead
<1>5. ASSUME NEW r \in RunIds, NEW s \in Steps, NEW d \in Decisions, ResolveRead(w, r, s, d)
      PROVE  GateInv'
  BY <1>2, <1>5 DEF ResolveRead
<1> QED BY <1>1, <1>3, <1>4, <1>5 DEF Arrive

\* What a handler that is done with the run does.
LEMMA StoringGate ==
  ASSUME IInv, GateInv, NEW w \in Workers, Insert(w) \/ PersistRead(w)
  PROVE  GateInv'
<1> DEFINE r == req[w].run
<1>1. /\ ~Idle(w) /\ UNCHANGED log /\ req[w] \in Request /\ r \in RunIds
      /\ req \in [Workers -> Request \cup {None}] /\ RequestIn(log[r], req[w])
      /\ runs \in [RunIds -> RunState \cup {None}]
  BY InFlight DEF Insert, PersistRead, IInv, ReqOK, TypeOK, GateInv
<1>2. Grows /\ ApprovalPrecedesGatedStep'
  BY <1>1, SameLogGrows
<1>3. CASE Insert(w)
  <2> DEFINE q == [req[w] EXCEPT !.at = "persist"]
  <2>1. /\ runs' = [runs EXCEPT ![r] = req[w].st]
        /\ req' = [req EXCEPT ![w].at = "persist", ![w].st = req[w].st]
    BY <1>3 DEF Insert, Continue
  <2>2. req' = [req EXCEPT ![w] = q]
    BY <1>1, <2>1 DEF Request
  <2>3. q.run = r /\ q.at = "persist" /\ q.st = req[w].st
    BY <1>1 DEF Request
  <2> HIDE DEF q, r
  <2>4. RequestIn(log'[r], q)
    BY <1>1, <2>3 DEF RequestIn, Leaving
  <2>5. \A p \in RunIds : runs'[p] # None => GateIn(log'[p], runs'[p])
    BY <1>1, <2>1 DEF GateInv, RequestIn
  <2> QED BY <1>1, <1>2, <2>2, <2>3, <2>4, <2>5, OneRequest
<1>4. CASE PersistRead(w)
  <2> DEFINE q == [req[w] EXCEPT !.at = "put", !.snap = log[r]]
  <2>1. UNCHANGED runs /\ req' = [req EXCEPT ![w] = q]
    BY <1>4 DEF PersistRead
  <2>2. q.run = r /\ q.at = "put" /\ q.st = req[w].st
    BY <1>1 DEF Request
  <2> HIDE DEF q, r
  <2>3. RequestIn(log'[r], q)
    BY <1>1, <2>2 DEF RequestIn, Leaving
  <2> QED BY <1>1, <1>2, <2>1, <2>2, <2>3, MapKept, OneRequest
<1> QED BY <1>3, <1>4

\* A handler that admits a gated step holds the approval of that step.
LEMMA AdmittedGate ==
  ASSUME IInv, NEW w \in Workers, ~Idle(w), req[w].at = "admit", RequestIn(log[req[w].run], req[w]),
         ReqAdmission(w) \in Allowed, StepType(req[w].st) = "human_gate"
  PROVE  ApprovedIn(log[req[w].run], req[w].from)
<1> DEFINE x == req[w].st
<1>1. GateVerdict(x.gate) = "HUMAN_GATE_APPROVED"
  BY DEF ReqAdmission, Admission, Allowed, GateVerdict
<1>2. x.gate # None /\ x.gate.decision = "approve"
  BY <1>1 DEF GateVerdict
<1>3. x.gate.step = x.step
  BY <1>2, InFlight DEF Coherent
<1> QED BY <1>2, <1>3 DEF RequestIn, GateIn

LEMMA AdmitGate ==
  ASSUME IInv, GateInv, NEW w \in Workers, ExecuteAdmit(w)
  PROVE  GateInv'
<1> DEFINE r == req[w].run
           o == Observe("operation_admitted", req[w].st.step, NextRef(req[w].st), "none",
                        ReqAdmission(w))
<1>1. /\ ~Idle(w) /\ req[w].at = "admit" /\ req[w] \in Request /\ r \in RunIds
      /\ req[w].st \in RunState /\ AppendObs(r, o) /\ UNCHANGED runs
      /\ ReqAdmission(w) \in Allowed
      /\ req \in [Workers -> Request \cup {None}] /\ RequestIn(log[r], req[w])
  BY InFlight DEF ExecuteAdmit, IInv, ReqOK, GateInv
<1>2. Grows /\ ApprovalPrecedesGatedStep'
  <2>1. o.event = "operation_admitted"
    BY DEF Observe
  <2> HIDE DEF o
  <2> QED BY <1>1, <2>1, AppendPreceded
<1>3. ASSUME NEW point \in {"record", "call"},
             req' = [req EXCEPT ![w] = [Admitted(w) EXCEPT !.at = point]]
      PROVE  GateInv'
  <2> DEFINE q == [Admitted(w) EXCEPT !.at = point]
  <2>1. /\ q.at = point /\ q.run = r /\ q.from = req[w].from
        /\ q.outcome = ExecuteOutcome(req[w].st) /\ q.st.gate = req[w].st.gate
    BY <1>1 DEF Admitted, Request, RunState
  <2>2. req' = [req EXCEPT ![w] = q]
    BY <1>3
  <2> HIDE DEF q, r, o
  <2>3. q.outcome = "approve" => ApprovedIn(log[r], q.from)
    BY <1>1, <2>1, AdmittedGate DEF ExecuteOutcome, r
  <2>4. RequestIn(log'[r], q)
    <3>1. GateIn(log[r], q.st)
      BY <1>1, <2>1 DEF RequestIn, GateIn
    <3>2. q.at # "admit"
      BY <2>1
    <3> QED BY <1>1, <1>2, <2>3, <3>1, <3>2, ApprovalStays DEF RequestIn
  <2> QED BY <1>1, <1>2, <2>1, <2>2, <2>4, MapKept, OneRequest
<1> QED BY <1>1, <1>2, <1>3, RespondGate DEF ExecuteAdmit

LEMMA CallGate ==
  ASSUME IInv, GateInv, NEW w \in Workers, ConnectorOk(w) \/ ConnectorErr(w)
  PROVE  GateInv'
<1>1. /\ ~Idle(w) /\ UNCHANGED <<runs, log>> /\ req[w].at = "call" /\ req[w].run \in RunIds
      /\ GateIn(log[req[w].run], req[w].st)
  BY InFlight DEF ConnectorOk, ConnectorErr, GateInv, RequestIn
<1>2. Grows /\ ApprovalPrecedesGatedStep'
  BY <1>1, SameLogGrows
<1>3. CASE ConnectorOk(w)
  <2>1. Continue(w, "record", req[w].st)
    BY <1>3 DEF ConnectorOk
  <2> QED BY <1>1, <1>2, <2>1, ContinueGate DEF Points, Leaving
<1>4. CASE ConnectorErr(w)
  BY <1>1, <1>2, <1>4, RespondGate DEF ConnectorErr
<1> QED BY <1>3, <1>4

\* A handler that records something other than an approved departure and goes
\* on with a state that carries no approved gate.
LEMMA RecordingGate ==
  ASSUME IInv, GateInv, NEW w \in Workers, ~Idle(w), UNCHANGED runs,
         NEW point \in Points \ {"admit"}, point \in Leaving => req[w].at \in Leaving,
         NEW o, o.event = "transition_applied" => o.outcome # "approve",
         NEW x, x.gate # None => x.gate.decision # "approve",
         AppendObs(req[w].run, o), Continue(w, point, x)
  PROVE  GateInv'
<1>1. Grows /\ ApprovalPrecedesGatedStep'
  BY InFlight, AppendPreceded
<1>2. GateIn(log'[req[w].run], x)
  BY DEF GateIn
<1> QED BY <1>1, <1>2, ContinueGate

LEMMA RecordGate ==
  ASSUME IInv, GateInv, NEW w \in Workers,
         ExecuteRecord(w) \/ ExecuteNoTransition(w) \/ ExecuteTrace(w)
  PROVE  GateInv'
<1> DEFINE q == req[w]
           r == req[w].run
<1>1. /\ ~Idle(w) /\ UNCHANGED runs /\ q \in Request /\ r \in RunIds /\ q.st \in RunState
      /\ q.target \in Target \cup {None} /\ Coherent(q.st) /\ RequestIn(log[r], q)
  BY InFlight DEF ExecuteRecord, ExecuteNoTransition, ExecuteTrace, GateInv
<1>2. /\ StepDone(q.st) \in RunState
      /\ StepDone(q.st).steps[StepDone(q.st).step] # None
      /\ \A t \in Steps : StepDone(q.st).steps[t] # None <=> q.st.steps[t] # None
  <2>1. q.st.steps[q.st.step] # None /\ q.st.step \in Steps
    BY <1>1 DEF Coherent, RunState
  <2> HIDE DEF q
  <2> QED BY <1>1, <2>1, StepDoneType
<1>3. CASE ExecuteRecord(w)
  <2> DEFINE e == ApplyTransition(StepDone(q.st), q.target)
             y == [e EXCEPT !.adm = "OPERATION_ALLOWED", !.count = CountOf(r)]
             d == IF StepType(q.st) = "connector_action" THEN "connector" ELSE "approved_gate"
             o == Observe("step_executed", q.from, NextRef(q.st), "none", d)
  <2>1. q.at = "record" /\ AppendObs(r, o) /\ Continue(w, "trace", y)
    BY <1>3 DEF ExecuteRecord
  <2>2. e \in RunState /\ (e.gate # None => e.gate.decision = "none")
    <3>1. q.target \in Target /\ Applicable(StepDone(q.st), q.target)
      BY <1>1, <1>2, <1>3 DEF ExecuteRecord, Applicable
    <3> QED BY <1>2, <3>1, ApplyTransitionType
  <2>3. o.event = "step_executed"
    BY DEF Observe
  <2> HIDE DEF e, o
  <2>4. y.gate = e.gate
    BY <2>2 DEF RunState
  <2> HIDE DEF y
  <2> QED BY <1>1, <2>1, <2>2, <2>3, <2>4, RecordingGate DEF Points, Leaving
<1>4. CASE ExecuteNoTransition(w)
  <2> DEFINE e == FailRun(StepDone(q.st))
             y == [e EXCEPT !.count = CountOf(r)]
             o == Observe("transition_failed", q.from, NextRef(q.st), q.outcome, "none")
  <2>1. AppendObs(r, o) /\ Continue(w, "insert", y)
    BY <1>4 DEF ExecuteNoTransition
  <2>2. e \in RunState /\ e.gate = None
    BY <1>2, FailRunType
  <2>3. o.event = "transition_failed"
    BY DEF Observe
  <2> HIDE DEF e, o
  <2>4. y.gate = None
    BY <2>2 DEF RunState
  <2> HIDE DEF y
  <2> QED BY <1>1, <2>1, <2>3, <2>4, RecordingGate DEF Points, Leaving
<1>5. CASE ExecuteTrace(w)
  <2> DEFINE y == [q.st EXCEPT !.count = CountOf(r)]
             o == Observe("transition_applied", q.from, NextRef(q.st), q.outcome, q.target)
  <2>1. q.at = "trace" /\ AppendObs(r, o) /\ Continue(w, "insert", y)
    BY <1>5 DEF ExecuteTrace
  <2>2. o.outcome = q.outcome /\ o.step = q.from
    BY DEF Observe
  <2>3. y.gate = q.st.gate
    BY <1>1 DEF RunState
  <2> HIDE DEF y, o
  <2>4. Grows /\ ApprovalPrecedesGatedStep'
    BY <1>1, <2>1, <2>2, AppendPreceded DEF RequestIn, Leaving
  <2>5. GateIn(log'[r], y)
    BY <1>1, <2>3, <2>4, ApprovalStays DEF GateIn, RequestIn
  <2> QED BY <1>1, <2>1, <2>4, <2>5, ContinueGate DEF Points, Leaving
<1> QED BY <1>3, <1>4, <1>5

\* The resolution of a gate is recorded with the gate it leaves on the run.
LEMMA ResolutionGate ==
  ASSUME IInv, GateInv, NEW w \in Workers, ~Idle(w), UNCHANGED runs,
         NEW x \in RunState, NEW gate \in Gate, RecordResolution(w, x, gate)
  PROVE  GateInv'
<1> DEFINE r == req[w].run
           o == Observe("gate_resolved", gate.step, NextRef(x), gate.decision, "none")
           y == [x EXCEPT !.gate = gate, !.count = CountOf(r)]
<1>1. r \in RunIds /\ AppendObs(r, o) /\ Continue(w, "insert", y)
  BY InFlight DEF RecordResolution
<1>2. /\ o.event = "gate_resolved" /\ o.outcome = gate.decision /\ o.step = gate.step
      /\ y.gate = gate
  BY DEF Observe, RunState
<1> HIDE DEF o, y, r
<1>3. Grows /\ ApprovalPrecedesGatedStep'
  BY <1>1, <1>2, AppendPreceded
<1>4. GateIn(log'[r], y)
  BY <1>1, <1>2, AppendGrows DEF GateIn, ApprovedIn, Approves, IInv
<1> QED BY <1>1, <1>3, <1>4, ContinueGate DEF Points, Leaving, r

LEMMA DecideGate ==
  ASSUME IInv, GateInv, NEW w \in Workers,
         Approve(w) \/ RecordReject(w) \/ RejectNoTransition(w) \/ Reject(w)
  PROVE  GateInv'
<1> DEFINE q == req[w]
           r == req[w].run
<1>1. /\ ~Idle(w) /\ UNCHANGED runs /\ q \in Request /\ r \in RunIds /\ q.st \in RunState
      /\ q.from \in Steps /\ q.st.steps[q.st.step] # None /\ q.st.step \in Steps
      /\ req \in [Workers -> Request \cup {None}] /\ RequestIn(log[r], q)
      /\ registry[q.st.contract] \in Flow
  BY InFlight DEF Approve, RecordReject, RejectNoTransition, Reject, GateInv, Coherent, IInv, ReqOK
<1>2. CASE Approve(w)
  <2> DEFINE z == SetStepStatus(q.st, q.st.step, "ready")
             y == [z EXCEPT !.status = "in_progress", !.nextOp = q.st.steps[q.st.step].op,
                            !.adm = "HUMAN_GATE_APPROVED"]
             gate == Resolved(q.st.gate, "approve")
  <2>1. q.at = "decide" /\ RecordResolution(w, y, gate)
    BY <1>2 DEF Approve
  <2>2. gate \in Gate /\ q.st.steps[q.st.step].op \in Ops \cup {None}
    BY <1>1, <2>1, Deciding DEF Resolved, Gate, Decisions, ContractStep
  <2>3. z \in RunState
    BY <1>1, SetStepStatusType DEF StepStatus
  <2> HIDE DEF z, gate
  <2>4. y \in RunState
    BY <2>2, <2>3 DEF RunState, RunStatus, Reasons, Allowed
  <2> HIDE DEF y
  <2> QED BY <1>1, <2>1, <2>2, <2>4, ResolutionGate
<1>3. CASE RecordReject(w)
  <2> DEFINE gate == Resolved(GateForStep(q.from), "reject")
  <2>1. gate \in Gate /\ RecordResolution(w, q.st, gate)
    BY <1>1, <1>3 DEF RecordReject, Gate, Resolved, GateForStep, Decisions
  <2> HIDE DEF gate
  <2> QED BY <1>1, <2>1, ResolutionGate
<1>4. CASE RejectNoTransition(w)
  <2> DEFINE e == FailRun(q.st)
             y == [e EXCEPT !.count = CountOf(r)]
             o == Observe("transition_failed", q.st.gate.step, NextRef(q.st), "reject", "none")
  <2>1. AppendObs(r, o) /\ Continue(w, "insert", y)
    BY <1>4 DEF RejectNoTransition
  <2>2. e \in RunState /\ e.gate = None
    BY <1>1, FailRunType
  <2>3. o.event = "transition_failed"
    BY DEF Observe
  <2> HIDE DEF e, o
  <2>4. y.gate = None
    BY <2>2 DEF RunState
  <2> HIDE DEF y
  <2> QED BY <1>1, <2>1, <2>3, <2>4, RecordingGate DEF Points, Leaving
<1>5. CASE Reject(w)
  <2> DEFINE t == RejectTarget(w)
             x == SetStepStatus(q.st, q.st.step, "blocked")
             z == IF Applicable(x, t) THEN ApplyTransition(x, t) ELSE x
             y == [z EXCEPT !.adm = "HUMAN_GATE_REJECTED", !.count = CountOf(r)]
             n == [q EXCEPT !.at = "resolved", !.target = t, !.st = y]
             o == Observe("transition_applied", q.st.gate.step, NextRef(x), "reject", t)
  <2>1. t # None /\ AppendObs(r, o) /\ req' = [req EXCEPT ![w] = n]
    BY <1>5 DEF Reject
  <2>2. o.outcome = "reject"
    BY DEF Observe
  <2>3. t \in Target
    BY <1>1, <2>1, ResolveType DEF RejectTarget, Outcomes
  <2> HIDE DEF t
  <2>4. /\ x \in RunState /\ x.step = q.st.step /\ x.steps[x.step] # None
        /\ x.gate = q.st.gate
    BY <1>1, SetStepStatusType DEF StepStatus, RunState
  <2> HIDE DEF x, o
  <2>5. z \in RunState /\ GateIn(log[r], z)
    <3>1. CASE Applicable(x, t)
      BY <2>3, <2>4, <3>1, ApplyTransitionType DEF GateIn
    <3>2. CASE ~Applicable(x, t)
      BY <1>1, <2>4, <3>2 DEF RequestIn, GateIn
    <3> QED BY <3>1, <3>2
  <2> HIDE DEF z
  <2>6. y.gate = z.gate
    BY <2>5 DEF RunState
  <2> HIDE DEF y
  <2>7. n.at = "resolved" /\ n.run = r /\ n.st = y
    BY <1>1 DEF Request
  <2> HIDE DEF n
  <2>8. Grows /\ ApprovalPrecedesGatedStep'
    BY <1>1, <2>1, <2>2, AppendPreceded
  <2>9. RequestIn(log'[r], n)
    BY <1>1, <2>5, <2>6, <2>7, <2>8, ApprovalStays DEF RequestIn, GateIn, Leaving
  <2> QED BY <1>1, <2>1, <2>7, <2>8, <2>9, MapKept, OneRequest
<1> QED BY <1>2, <1>3, <1>4, <1>5

\* GET next writes the last admission of a run only.
LEMMA NextOperationGate ==
  ASSUME IInv, GateInv, NEW r \in RunIds, GetNext(r)
  PROVE  GateInv'
<1> DEFINE x == [runs[r] EXCEPT !.adm = Admission(runs[r], registry[runs[r].contract])]
<1>1. /\ runs[r] \in RunState /\ runs[r] # None /\ UNCHANGED <<log, req>>
      /\ runs' = [runs EXCEPT ![r] = x] /\ runs \in [RunIds -> RunState \cup {None}]
  BY InMap DEF GetNext, IInv, RunsOK
<1>2. x.gate = runs[r].gate
  BY <1>1 DEF RunState
<1> HIDE DEF x
<1>3. \A q \in RunIds : runs'[q] # None => GateIn(log'[q], runs'[q])
  BY <1>1, <1>2 DEF GateInv, GateIn
<1> QED BY <1>1, <1>3, SameLogGrows DEF GateInv, Idle

-----------------------------------------------------------------------------
(* The theorem *)

LEMMA HandleGate ==
  ASSUME IInv, GateInv, NEW w \in Workers, Handle(w)
  PROVE  GateInv'
<1>1. CASE PersistPut(w) \/ PersistFail(w) \/ EvidenceAnswer(w) \/ ExecuteDeny(w)
            \/ ExecuteLostTarget(w)
  BY <1>1, SameLogGrows, RespondGate
     DEF PersistPut, PersistFail, EvidenceAnswer, ExecuteDeny, ExecuteLostTarget
<1> QED BY <1>1, StoringGate, AdmitGate, CallGate, RecordGate, DecideGate DEF Handle

LEMMA NextGate == IInv /\ GateInv /\ [Next]_vars => GateInv'
<1> SUFFICES ASSUME IInv, GateInv, [Next]_vars PROVE GateInv'
  OBVIOUS
<1>1. CASE UNCHANGED <<runs, log, req>>
  BY <1>1, SameLogGrows DEF GateInv, Idle
<1>2. CASE Restart
  BY <1>2 DEF Restart, GateInv, ApprovalPrecedesGatedStep, Idle
<1>3. ASSUME NEW w \in Workers, Arrive(w) \/ Handle(w) PROVE GateInv'
  BY <1>3, ArriveGate, HandleGate
<1> QED BY <1>1, <1>2, <1>3, NextOperationGate DEF Next, Register, vars

\* No run leaves a gated step by its approve transition unless an approval of
\* that very step was recorded before, whatever requests overlap.
THEOREM GatesAlwaysApproved == Spec => []ApprovalPrecedesGatedStep
<1>1. Init => GateInv
  BY DEF Init, GateInv, ApprovalPrecedesGatedStep, Idle
<1>2. Spec => []GateInv
  BY <1>1, NextGate, IInvAlways, PTL DEF Spec
<1>3. GateInv => ApprovalPrecedesGatedStep
  BY DEF GateInv
<1> QED BY <1>2, <1>3, PTL

=============================================================================
