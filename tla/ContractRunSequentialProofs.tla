---------------------- MODULE ContractRunSequentialProofs ----------------------
(***************************************************************************)
(* Proofs of the properties of ContractRun that hold when the requests     *)
(* that act on one run do not overlap: what the log says of the run, what  *)
(* an approval is good for, and the refinement of ContractWalk.  Requests  *)
(* on different runs may overlap in any way, and so may evidence requests. *)
(***************************************************************************)
EXTENDS ContractRunProperties, ContractRunLogProofs, FiniteSetTheorems

\* A request that will change run r, or may.
On(w, r) == ~Idle(w) /\ req[w].at # "evidence" /\ req[w].run = r

\* What the clients have to see to: no two such requests on one run.
Apart == \A r \in RunIds : \A v, w \in Workers : On(v, r) /\ On(w, r) => v = w

\* No contract is replaced.
FlowsFixed == registry = Seeded

-----------------------------------------------------------------------------
(* One run at a time: the request on it, and what a step does to the run   *)
(* and to that request.                                                    *)

Actor(r) == IF \E w \in Workers : On(w, r) THEN req[CHOOSE w \in Workers : On(w, r)] ELSE None

LEMMA ActorIs ==
  ASSUME NEW r \in RunIds
  PROVE  /\ Apart => \A w \in Workers : On(w, r) => Actor(r) = req[w]
         /\ Apart' => \A w \in Workers : On(w, r)' => Actor(r)' = req'[w]
         /\ (\A w \in Workers : ~On(w, r)) => Actor(r) = None
         /\ (\A w \in Workers : ~On(w, r)') => Actor(r)' = None
<1>1. ASSUME Apart, NEW w \in Workers, On(w, r) PROVE Actor(r) = req[w]
  BY <1>1 DEF Apart, Actor
<1>2. ASSUME Apart', NEW w \in Workers, On(w, r)' PROVE Actor(r)' = req'[w]
  BY <1>2 DEF Apart, Actor
<1> QED BY <1>1, <1>2 DEF Actor

\* A request goes on on its run, is done, or begins.
LEMMA HandleStays ==
  ASSUME IInv, NEW w \in Workers, Handle(w)
  PROVE  /\ ~Idle(w) /\ req[w].run \in RunIds
         /\ \A v \in Workers \ {w} : req'[v] = req[v]
         /\ \A p \in RunIds \ {req[w].run} :
              log'[p] = log[p] /\ runs'[p] = runs[p] /\ store'[p] = store[p]
         /\ req'[w] = None \/ (req'[w].run = req[w].run /\ req'[w].at # "evidence")
         /\ req[w].at = "evidence" => UNCHANGED <<log, runs, store>> /\ req'[w] = None
<1>1. ~Idle(w)
  BY DEF Handle, Insert, PersistRead, PersistPut, PersistFail, EvidenceAnswer, ExecuteDeny,
         ExecuteAdmit, ConnectorOk, ConnectorErr, ExecuteRecord, ExecuteNoTransition,
         ExecuteLostTarget, ExecuteTrace, Approve, Reject, RejectNoTransition, RecordReject
<1>2. /\ req \in [Workers -> Request \cup {None}] /\ req[w] \in Request /\ req[w].run \in RunIds
      /\ log \in [RunIds -> Seq(Obs)] /\ runs \in [RunIds -> RunState \cup {None}]
      /\ store \in [RunIds -> Snapshot \cup {None}]
  BY <1>1, InFlight DEF IInv, ReqOK, TypeOK
<1> DEFINE q == req[w]
           Kept == /\ \A v \in Workers \ {w} : req'[v] = req[v]
                   /\ req'[w] = None \/ (req'[w].run = q.run /\ req'[w].at # "evidence")
           Elsewhere == \A p \in RunIds \ {q.run} :
                          log'[p] = log[p] /\ runs'[p] = runs[p] /\ store'[p] = store[p]
<1>3. ASSUME Respond(w) PROVE Kept /\ req'[w] = None
  BY <1>2, <1>3 DEF Respond
<1>4. ASSUME NEW point, NEW x, Continue(w, point, x), point # "evidence" PROVE Kept
  <2>1. req'[w] = [req[w] EXCEPT !.at = point, !.st = x] /\ \A v \in Workers \ {w} : req'[v] = req[v]
    BY <1>2, <1>4 DEF Continue
  <2> QED BY <1>2, <1>4, <2>1 DEF Request
<1>5. ASSUME NEW o, AppendObs(q.run, o), UNCHANGED <<runs, store>> PROVE Elsewhere
  BY <1>2, <1>5 DEF AppendObs
<1>6. CASE EvidenceAnswer(w)
  BY <1>1, <1>2, <1>3, <1>6 DEF EvidenceAnswer
<1>7. CASE Insert(w)
  BY <1>1, <1>2, <1>4, <1>7 DEF Insert
<1>8. CASE PersistRead(w)
  <2>1. req'[w] = [req[w] EXCEPT !.at = "put", !.snap = log[req[w].run]]
        /\ \A v \in Workers \ {w} : req'[v] = req[v]
    BY <1>2, <1>8 DEF PersistRead
  <2> QED BY <1>1, <1>2, <1>8, <2>1 DEF PersistRead, Request
<1>9. CASE PersistPut(w) \/ PersistFail(w) \/ ExecuteDeny(w) \/ ConnectorErr(w)
             \/ ExecuteLostTarget(w)
  <2>1. q.at # "evidence" /\ Respond(w) /\ Elsewhere
    BY <1>2, <1>9 DEF PersistPut, PersistFail, ExecuteDeny, ConnectorErr, ExecuteLostTarget
  <2> QED BY <1>1, <1>2, <1>3, <2>1
<1>10. CASE ExecuteAdmit(w)
  <2>1. q.at # "evidence" /\ Elsewhere
    BY <1>5, <1>10 DEF ExecuteAdmit
  <2>2. ASSUME NEW point \in {"record", "call"},
               req' = [req EXCEPT ![w] = [Admitted(w) EXCEPT !.at = point]]
        PROVE  Kept
    BY <1>2, <2>2 DEF Admitted, Request
  <2>3. Kept
    BY <1>3, <1>10, <2>2 DEF ExecuteAdmit
  <2> QED BY <1>1, <1>2, <2>1, <2>3
<1>11. CASE ConnectorOk(w)
  <2>1. q.at # "evidence" /\ Elsewhere /\ Kept
    BY <1>4, <1>11 DEF ConnectorOk
  <2> QED BY <1>1, <1>2, <2>1
<1>12. CASE ExecuteRecord(w) \/ ExecuteNoTransition(w) \/ ExecuteTrace(w)
  <2>1. q.at # "evidence" /\ Elsewhere
    BY <1>5, <1>12 DEF ExecuteRecord, ExecuteNoTransition, ExecuteTrace
  <2>2. Kept
    BY <1>4, <1>12 DEF ExecuteRecord, ExecuteNoTransition, ExecuteTrace
  <2> QED BY <1>1, <1>2, <2>1, <2>2
<1>13. CASE Approve(w) \/ RejectNoTransition(w) \/ RecordReject(w)
  <2>1. q.at # "evidence" /\ Elsewhere
    BY <1>5, <1>13 DEF Approve, RejectNoTransition, RecordReject, RecordResolution
  <2>2. Kept
    BY <1>4, <1>13 DEF Approve, RejectNoTransition, RecordReject, RecordResolution
  <2> QED BY <1>1, <1>2, <2>1, <2>2
<1>14. CASE Reject(w)
  <2>1. q.at # "evidence" /\ Elsewhere
    BY <1>5, <1>14 DEF Reject
  <2>2. Kept
    BY <1>2, <1>14 DEF Reject, Request
  <2> QED BY <1>1, <1>2, <2>1, <2>2
<1> QED BY <1>6, <1>7, <1>8, <1>9, <1>10, <1>11, <1>12, <1>13, <1>14 DEF Handle

LEMMA SameActor ==
  ASSUME Apart, Apart', NEW r \in RunIds,
         \A w \in Workers : (On(w, r)' <=> On(w, r)) /\ (On(w, r) => req'[w] = req[w])
  PROVE  Actor(r)' = Actor(r)
<1>1. CASE \E w \in Workers : On(w, r)
  <2>1. PICK w \in Workers : On(w, r)
    BY <1>1
  <2> QED BY <2>1, ActorIs
<1>2. CASE \A w \in Workers : ~On(w, r)
  BY <1>2, ActorIs
<1> QED BY <1>1, <1>2

Untouched(r) == /\ log'[r] = log[r] /\ runs'[r] = runs[r] /\ store'[r] = store[r]
                /\ Actor(r)' = Actor(r)

\* A request on r begins.
Begins(w, r) == \/ \E c \in Contracts, auth \in BOOLEAN : Start(w, r, c, auth)
                \/ \E s \in Steps, op \in Ops : ExecuteRead(w, r, s, op)
                \/ \E s \in Steps, decision \in Decisions : ResolveRead(w, r, s, decision)

LEMMA ServeOn ==
  ASSUME IInv, NEW w \in Workers, NEW r \in RunIds, NEW point \in Points \ {"evidence"},
         NEW x \in RunState, NEW s \in Steps, NEW o \in Outcomes \cup {"none"},
         Serve(w, point, r, x, s, o)
  PROVE  /\ On(w, r)' /\ \A v \in Workers \ {w} : req'[v] = req[v]
         /\ req'[w].at = point /\ req'[w].st = x /\ req'[w].from = s /\ req'[w].outcome = o
<1> DEFINE n == [at |-> point, run |-> r, st |-> x, from |-> s,
                 outcome |-> o, target |-> None, snap |-> <<>>]
<1>1. req'[w] = n /\ \A v \in Workers \ {w} : req'[v] = req[v]
  BY DEF Serve, IInv, ReqOK
<1>2. n \in Request
  BY DEF Request
<1>3. n # None
  BY <1>2, RunAbsenceAssumption
<1> QED BY <1>1, <1>3 DEF On, Idle

LEMMA BeginsOn ==
  ASSUME IInv, NEW w \in Workers, NEW r \in RunIds, Begins(w, r)
  PROVE  /\ Idle(w) /\ On(w, r)' /\ req'[w].at # "put"
         /\ \A v \in Workers \ {w} : req'[v] = req[v]
         /\ \A p \in RunIds \ {r} : log'[p] = log[p]
         /\ UNCHANGED <<registry, runs, store>>
<1>1. log \in [RunIds -> Seq(Obs)]
  BY DEF IInv, TypeOK
<1>2. ASSUME NEW c \in Contracts, NEW auth \in BOOLEAN, Start(w, r, c, auth)
      PROVE  On(w, r)' /\ req'[w].at # "put" /\ \A v \in Workers \ {w} : req'[v] = req[v]
  <2> DEFINE x == NewRun(c, registry[c], auth)
             y == [x EXCEPT !.count = CountOf(r)]
  <2>1. registry[c] \in Flow /\ ValidFlow(registry[c]) /\ CountOf(r) \in Nat
    BY <1>2, CountType DEF Start, IInv, TypeOK
  <2>2. x \in RunState
    BY <2>1, NewRunType
  <2>3. Serve(w, "insert", r, y, x.step, "none")
    BY <1>2 DEF Start
  <2> HIDE DEF x
  <2>4. y \in RunState /\ x.step \in Steps
    BY <2>1, <2>2 DEF RunState
  <2> HIDE DEF y
  <2> QED BY <2>3, <2>4, ServeOn DEF Points
<1>3. ASSUME NEW s \in Steps, NEW op \in Ops, ExecuteRead(w, r, s, op)
      PROVE  On(w, r)' /\ req'[w].at # "put" /\ \A v \in Workers \ {w} : req'[v] = req[v]
  BY <1>3, InMap, ServeOn DEF ExecuteRead, Points
<1>4. ASSUME NEW s \in Steps, NEW d \in Decisions, ResolveRead(w, r, s, d)
      PROVE  On(w, r)' /\ req'[w].at # "put" /\ \A v \in Workers \ {w} : req'[v] = req[v]
  BY <1>4, InMap, ServeOn DEF ResolveRead, Points, Decisions, Outcomes
<1>5. Idle(w) /\ UNCHANGED <<registry, runs, store>> /\ \A p \in RunIds \ {r} : log'[p] = log[p]
  BY <1>1 DEF Begins, Start, ExecuteRead, ResolveRead, AppendObs
<1> QED BY <1>2, <1>3, <1>4, <1>5 DEF Begins

LEMMA Focus ==
  ASSUME IInv, Apart, Apart', [Next]_vars, NEW r \in RunIds
  PROVE  \/ Untouched(r)
         \/ Restart
         \/ GetNext(r) /\ Actor(r)' = Actor(r)
         \/ \E w \in Workers : Begins(w, r) /\ Actor(r) = None /\ Actor(r)' = req'[w]
         \/ \E w \in Workers : Handle(w) /\ On(w, r) /\ Actor(r) = req[w] /\ Actor(r)' = req'[w]
<1>1. /\ runs \in [RunIds -> RunState \cup {None}] /\ req \in [Workers -> Request \cup {None}]
  BY DEF IInv, TypeOK
<1>2. CASE UNCHANGED <<req, runs, log, store>>
  BY <1>2, SameActor DEF On, Idle, Untouched
<1>3. ASSUME NEW p \in RunIds, GetNext(p)
      PROVE  Untouched(r) \/ (GetNext(r) /\ Actor(r)' = Actor(r))
  <2>1. Actor(r)' = Actor(r)
    BY <1>3, SameActor DEF On, Idle, GetNext
  <2>2. CASE p = r
    BY <1>3, <2>1, <2>2
  <2>3. CASE p # r
    BY <1>1, <1>3, <2>1, <2>3 DEF GetNext, Untouched
  <2> QED BY <2>2, <2>3
<1>4. ASSUME NEW w \in Workers, NEW p \in RunIds, EvidenceRead(w, p) PROVE Untouched(r)
  <2>1. Idle(w) /\ (~On(w, r))' /\ \A v \in Workers \ {w} : req'[v] = req[v]
    BY <1>1, <1>4 DEF EvidenceRead, Serve, On
  <2>2. \A v \in Workers : (On(v, r)' <=> On(v, r)) /\ (On(v, r) => req'[v] = req[v])
    BY <2>1 DEF On, Idle
  <2>3. Actor(r)' = Actor(r)
    BY <2>2, SameActor
  <2> QED BY <1>4, <2>3 DEF EvidenceRead, Untouched
<1>5. ASSUME NEW w \in Workers, NEW p \in RunIds, Begins(w, p)
      PROVE  Untouched(r) \/ (Begins(w, r) /\ Actor(r) = None /\ Actor(r)' = req'[w])
  <2>1. /\ Idle(w) /\ On(w, p)' /\ \A v \in Workers \ {w} : req'[v] = req[v]
        /\ \A u \in RunIds \ {p} : log'[u] = log[u]
        /\ UNCHANGED <<runs, store>>
    BY <1>5, BeginsOn
  <2>2. CASE p # r
    <3>1. \A v \in Workers : (On(v, r)' <=> On(v, r)) /\ (On(v, r) => req'[v] = req[v])
      BY <2>1, <2>2 DEF On, Idle
    <3>2. Actor(r)' = Actor(r)
      BY <3>1, SameActor
    <3> QED BY <2>1, <2>2, <3>2 DEF Untouched
  <2>3. CASE p = r
    <3>1. \A v \in Workers : ~On(v, r)
      <4> SUFFICES ASSUME NEW v \in Workers, On(v, r) PROVE FALSE
        OBVIOUS
      <4>1. v # w /\ On(v, r)'
        BY <2>1 DEF On, Idle
      <4> QED BY <2>1, <2>3, <4>1 DEF Apart
    <3> QED BY <1>5, <2>1, <2>3, <3>1, ActorIs
  <2> QED BY <2>2, <2>3
<1>6. ASSUME NEW w \in Workers, Handle(w)
      PROVE  Untouched(r) \/ (On(w, r) /\ Actor(r) = req[w] /\ Actor(r)' = req'[w])
  <2>1. /\ ~Idle(w) /\ req[w].run \in RunIds /\ \A v \in Workers \ {w} : req'[v] = req[v]
        /\ \A p \in RunIds \ {req[w].run} :
             log'[p] = log[p] /\ runs'[p] = runs[p] /\ store'[p] = store[p]
        /\ req'[w] = None \/ (req'[w].run = req[w].run /\ req'[w].at # "evidence")
        /\ req[w].at = "evidence" => UNCHANGED <<log, runs, store>> /\ req'[w] = None
    BY <1>6, HandleStays
  <2>2. CASE ~On(w, r)
    <3>1. (~On(w, r))'
      BY <2>1, <2>2 DEF On, Idle
    <3>2. \A v \in Workers : (On(v, r)' <=> On(v, r)) /\ (On(v, r) => req'[v] = req[v])
      BY <2>1, <2>2, <3>1 DEF On, Idle
    <3>3. Actor(r)' = Actor(r)
      BY <3>2, SameActor
    <3> QED BY <2>1, <2>2, <3>3 DEF Untouched, On
  <2>3. CASE On(w, r)
    <3>1. \A v \in Workers \ {w} : ~On(v, r) /\ (~On(v, r))'
      BY <2>1, <2>3 DEF Apart, On, Idle
    <3>2. CASE req'[w] = None
      <4>1. \A v \in Workers : ~On(v, r)'
        BY <3>1, <3>2 DEF On, Idle
      <4> QED BY <2>3, <3>2, <4>1, ActorIs
    <3>3. CASE req'[w] # None
      <4>1. On(w, r)'
        BY <2>1, <2>3, <3>3 DEF On, Idle
      <4> QED BY <2>3, <4>1, ActorIs
    <3> QED BY <3>2, <3>3
  <2> QED BY <2>2, <2>3
<1>7. ASSUME NEW w \in Workers, Arrive(w)
      PROVE  Untouched(r) \/ (Begins(w, r) /\ Actor(r) = None /\ Actor(r)' = req'[w])
  BY <1>4, <1>5, <1>7 DEF Arrive, Begins
<1>8. CASE \E c \in Contracts, f \in Submissions : Register(c, f)
  BY <1>2, <1>8 DEF Register
<1> QED BY <1>2, <1>3, <1>6, <1>7, <1>8 DEF Next, vars

-----------------------------------------------------------------------------
(* Evidence on record is the beginning of the log, and so is what a        *)
(* handler is about to put.                                                *)

Beginning(a, b) == \A i \in DOMAIN a : i \in DOMAIN b /\ b[i] = a[i]

RecordOK(r) ==
  /\ store[r] # None => Beginning(store[r].obs, log[r])
  /\ Actor(r) # None /\ Actor(r).at = "put" =>
       /\ Beginning(Actor(r).snap, log[r])
       /\ store[r] # None => Beginning(store[r].obs, Actor(r).snap)

LEMMA SubSeqOfBeginning ==
  ASSUME NEW a \in Seq(Obs), NEW b \in Seq(Obs), Beginning(a, b)
  PROVE  Len(a) <= Len(b) /\ SubSeq(b, 1, Len(a)) = a
<1>1. /\ Len(a) \in Nat /\ Len(b) \in Nat /\ DOMAIN a = 1 .. Len(a) /\ DOMAIN b = 1 .. Len(b)
  OBVIOUS
<1>2. Len(a) <= Len(b)
  <2>1. CASE Len(a) = 0
    BY <1>1, <2>1
  <2>2. CASE Len(a) # 0
    BY <1>1, <2>2 DEF Beginning
  <2> QED BY <2>1, <2>2
<1> DEFINE c == SubSeq(b, 1, Len(a))
<1>3. c \in Seq(Obs) /\ Len(c) = Len(a) /\ \A i \in 1 .. Len(a) : c[i] = b[i]
  BY <1>1, <1>2
<1> HIDE DEF c
<1>4. c = a
  BY <1>1, <1>3 DEF Beginning
<1> QED BY <1>2, <1>4 DEF c

LEMMA BeginningStays ==
  ASSUME Grows, NEW r \in RunIds, NEW a, Beginning(a, log[r])
  PROVE  Beginning(a, log'[r])
BY DEF Grows, Beginning

LEMMA BeginsGrows ==
  ASSUME IInv, NEW w \in Workers, NEW r \in RunIds, Begins(w, r)
  PROVE  Grows
<1>1. ASSUME NEW o, AppendObs(r, o) PROVE Grows
  BY <1>1, AppendGrows DEF IInv
<1>2. CASE UNCHANGED log
  BY <1>2 DEF Grows
<1> QED BY <1>1, <1>2 DEF Begins, Start, ExecuteRead, ResolveRead

\* A handler appends to the log at most, and only a put touches the record.
LEMMA HandleGrows ==
  ASSUME IInv, NEW w \in Workers, Handle(w), ~PersistRead(w), ~PersistPut(w)
  PROVE  Grows /\ UNCHANGED store /\ (req'[w] = None \/ req'[w].at # "put")
<1>1. ~Idle(w) /\ req[w].run \in RunIds /\ req \in [Workers -> Request \cup {None}]
      /\ req[w] \in Request /\ TypeOK
  BY HandleStays, InFlight DEF IInv, ReqOK
<1>2. ASSUME NEW o, AppendObs(req[w].run, o) PROVE Grows
  BY <1>1, <1>2, AppendGrows
<1>3. ASSUME UNCHANGED log PROVE Grows
  BY <1>3 DEF Grows
<1>4. ASSUME Respond(w) PROVE req'[w] = None
  BY <1>1, <1>4 DEF Respond
<1>5. ASSUME NEW point, NEW x, Continue(w, point, x) PROVE req'[w].at = point
  BY <1>1, <1>5 DEF Continue, Request
<1>6. CASE PersistFail(w) \/ EvidenceAnswer(w) \/ ExecuteDeny(w) \/ ConnectorErr(w)
             \/ ExecuteLostTarget(w)
  BY <1>3, <1>4, <1>6 DEF PersistFail, EvidenceAnswer, ExecuteDeny, ConnectorErr, ExecuteLostTarget
<1>7. CASE Insert(w) \/ ConnectorOk(w)
  BY <1>3, <1>5, <1>7 DEF Insert, ConnectorOk
<1>8. CASE ExecuteRecord(w) \/ ExecuteNoTransition(w) \/ ExecuteTrace(w)
  BY <1>2, <1>5, <1>8 DEF ExecuteRecord, ExecuteNoTransition, ExecuteTrace
<1>9. CASE Approve(w) \/ RejectNoTransition(w) \/ RecordReject(w)
  BY <1>2, <1>5, <1>9 DEF Approve, RejectNoTransition, RecordReject, RecordResolution
<1>10. CASE Reject(w)
  <2>1. req'[w].at = "resolved"
    BY <1>1, <1>10 DEF Reject, Request
  <2> QED BY <1>2, <1>10, <2>1 DEF Reject
<1>11. CASE ExecuteAdmit(w)
  <2>1. ASSUME NEW point \in {"record", "call"},
               req' = [req EXCEPT ![w] = [Admitted(w) EXCEPT !.at = point]]
        PROVE  req'[w].at = point
    BY <1>1, <2>1 DEF Admitted, Request
  <2> QED BY <1>2, <1>4, <1>11, <2>1 DEF ExecuteAdmit
<1> QED BY <1>6, <1>7, <1>8, <1>9, <1>10, <1>11 DEF Handle

\* What a step does to the record of one run.
LEMMA RecordStep ==
  ASSUME IInv, Apart, Apart', [Next]_vars, ~Restart, NEW r \in RunIds, RecordOK(r)
  PROVE  /\ RecordOK(r)'
         /\ store[r] # None => store'[r] # None /\ Beginning(store[r].obs, store'[r].obs)
<1>1. \A a : Beginning(a, a)
  BY DEF Beginning
<1>2. CASE Untouched(r)
  BY <1>1, <1>2 DEF Untouched, RecordOK
<1>3. CASE GetNext(r) /\ Actor(r)' = Actor(r)
  BY <1>1, <1>3 DEF GetNext, RecordOK
<1>4. ASSUME NEW w \in Workers, Begins(w, r), Actor(r)' = req'[w]
      PROVE  RecordOK(r)' /\ store'[r] = store[r]
  <2>1. Grows /\ UNCHANGED store /\ req'[w].at # "put"
    BY <1>4, BeginsGrows, BeginsOn
  <2> QED BY <1>4, <2>1, BeginningStays DEF RecordOK
<1>5. ASSUME NEW w \in Workers, Handle(w), On(w, r), Actor(r) = req[w], Actor(r)' = req'[w]
      PROVE  /\ RecordOK(r)'
             /\ store[r] # None => store'[r] # None /\ Beginning(store[r].obs, store'[r].obs)
  <2>1. /\ ~Idle(w) /\ req[w].run = r /\ req[w] \in Request /\ req[w] # None
        /\ req \in [Workers -> Request \cup {None}] /\ store \in [RunIds -> Snapshot \cup {None}]
    BY <1>5, InFlight DEF On, Idle, IInv, ReqOK, TypeOK
  <2>2. CASE PersistRead(w)
    <3>1. /\ req'[w].at = "put" /\ req'[w].snap = log[r] /\ UNCHANGED <<log, store>>
      BY <2>1, <2>2 DEF PersistRead, Request
    <3> QED BY <1>1, <1>5, <3>1 DEF RecordOK
  <2>3. CASE PersistPut(w)
    <3>1. /\ req[w].at = "put" /\ req'[w] = None /\ UNCHANGED log
          /\ store'[r] = [status |-> EvidenceStatus(req[w].st), obs |-> req[w].snap]
      BY <2>1, <2>3 DEF PersistPut, Respond
    <3>2. store'[r] \in Snapshot
      <4>1. EvidenceStatus(req[w].st) \in RunStatus /\ req[w].snap \in Seq(Obs)
        BY <2>1 DEF EvidenceStatus, IsTerminal, RunStatus, Request
      <4> QED BY <3>1, <4>1 DEF Snapshot
    <3> QED BY <1>5, <2>1, <3>1, <3>2, RunAbsenceAssumption DEF RecordOK
  <2>4. CASE ~PersistRead(w) /\ ~PersistPut(w)
    <3>1. Grows /\ UNCHANGED store /\ (req'[w] = None \/ req'[w].at # "put")
      BY <1>5, <2>4, HandleGrows
    <3> QED BY <1>1, <1>5, <3>1, BeginningStays DEF RecordOK
  <2> QED BY <2>2, <2>3, <2>4
<1> QED BY <1>1, <1>2, <1>3, <1>4, <1>5, Focus

\* While the process lives and requests on a run do not overlap, what a snapshot
\* of the run once said every later snapshot says too.
THEOREM EvidenceOnRecordGrows ==
  ASSUME Restarts = FALSE
  PROVE  Spec /\ []Apart => EvidenceGrows
<1> DEFINE Inv == \A r \in RunIds : RecordOK(r)
           Kept(r) == store[r] # None => store'[r] # None /\ Beginning(store[r].obs, store'[r].obs)
<1>1. Init => Inv
  BY ActorIs DEF Init, RecordOK, On, Idle
<1>2. IInv /\ Inv /\ Apart /\ Apart' /\ [Next]_vars => Inv' /\ \A r \in RunIds : Kept(r)
  BY RecordStep DEF Restart
<1>3. IInv /\ IInv' /\ (\A r \in RunIds : Kept(r)) =>
        [\A r \in RunIds : store[r] # None =>
           /\ Len(store[r].obs) <= Len(store'[r].obs)
           /\ SubSeq(store'[r].obs, 1, Len(store[r].obs)) = store[r].obs]_vars
  <2> SUFFICES ASSUME IInv, IInv', NEW r \in RunIds, Kept(r), store[r] # None
               PROVE  /\ Len(store[r].obs) <= Len(store'[r].obs)
                      /\ SubSeq(store'[r].obs, 1, Len(store[r].obs)) = store[r].obs
    OBVIOUS
  <2>1. store[r].obs \in Seq(Obs) /\ store'[r].obs \in Seq(Obs)
    BY DEF IInv, TypeOK, Snapshot
  <2> QED BY <2>1, SubSeqOfBeginning
<1> QED BY <1>1, <1>2, <1>3, IInvAlways, PTL DEF Spec, EvidenceGrows

-----------------------------------------------------------------------------
(* What the steps of the handlers do to one run, seen through the few      *)
(* fields the rest is about: contract, step, status, gate, and the types   *)
(* of the steps.                                                           *)

Types(x) == [s \in Steps |-> IF x.steps[s] = None THEN {} ELSE {x.steps[s].type}]

Rest(x, y) == x.contract = y.contract /\ Types(x) = Types(y)

Alike(x, y) == Rest(x, y) /\ x.step = y.step /\ x.status = y.status /\ x.gate = y.gate

\* y is x after the transition to t.
Arrived(type, s, y) ==
  \/ type = {"human_gate"} /\ y.status = "waiting_review" /\ y.gate = GateForStep(s)
  \/ /\ type \in {{"connector_action"}, {"deterministic_action"}}
     /\ y.status = "in_progress" /\ y.gate = None
  \/ type = {"terminal"} /\ y.status = "completed" /\ y.gate = None

Taken(x, t, y) ==
  /\ Rest(x, y)
  /\ t \in Steps => y.step = t /\ Arrived(Types(x)[t], t, y)
  /\ t \notin Steps => y.step = x.step /\ y.status = t /\ y.gate = None

Failed(x, y) == Rest(x, y) /\ y.step = x.step /\ y.status = "failed" /\ y.gate = None

\* Nothing is said of the moves and the gates of run r; or just this is.
Silent(r) == \/ log'[r] = log[r]
             \/ \E o : log'[r] = Append(log[r], o) /\ o.event \in {"operation_admitted", "step_executed"}

Said(r, event, s, outcome, detail) ==
  \E o : /\ log'[r] = Append(log[r], o)
         /\ o.event = event /\ o.step = s /\ o.outcome = outcome /\ o.detail = detail

\* Request q goes on as n, at this point.
OnTo(q, n, point) == n # None /\ n.at = point /\ n.run = q.run /\ n.from = q.from

Quits(r, q, n) == q.at \in {"put", "admit", "call", "record"} /\ n = None /\ Silent(r)

Stores(r, q, n) == /\ q.at = "insert" /\ OnTo(q, n, "persist") /\ n.st = q.st /\ log'[r] = log[r]
                   /\ runs'[r] = q.st

Goes(r, q, n) == /\ \/ q.at = "persist" /\ OnTo(q, n, "put")
                    \/ q.at = "call" /\ OnTo(q, n, "record")
                 /\ n.st = q.st /\ n.outcome = q.outcome /\ n.target = q.target /\ log'[r] = log[r]

Admits(r, q, n) == /\ q.at = "admit" /\ (OnTo(q, n, "call") \/ OnTo(q, n, "record"))
                   /\ Admission(q.st, registry[q.st.contract]) \in Allowed
                   /\ Alike(q.st, n.st) /\ n.outcome = ExecuteOutcome(q.st)
                   /\ n.target = ResolveFlowTransition(registry[q.st.contract], q.st.step, n.outcome)
                   /\ Silent(r)

Takes(r, q, n) == /\ q.at = "record" /\ OnTo(q, n, "trace") /\ q.target \in Target
                  /\ Taken(q.st, q.target, n.st) /\ n.outcome = q.outcome /\ n.target = q.target
                  /\ Silent(r)

Fails(r, q, n) == /\ q.at = "record" /\ OnTo(q, n, "insert") /\ q.target = None
                  /\ Failed(q.st, n.st) /\ Said(r, "transition_failed", q.from, q.outcome, "none")

Traces(r, q, n) == /\ q.at = "trace" /\ OnTo(q, n, "insert") /\ Alike(q.st, n.st)
                   /\ Said(r, "transition_applied", q.from, q.outcome, q.target)

Opens(r, q, n) == /\ q.at = "decide" /\ q.outcome = "approve" /\ OnTo(q, n, "insert")
                      /\ Rest(q.st, n.st) /\ n.st.step = q.st.step /\ n.st.status = "in_progress"
                      /\ n.st.gate = Resolved(q.st.gate, "approve")
                      /\ Said(r, "gate_resolved", q.st.gate.step, "approve", "none")

Rejects(r, q, n) ==
  LET t == ResolveFlowTransition(registry[q.st.contract], q.st.step, "reject") IN
  /\ q.at = "decide" /\ OnTo(q, n, "resolved") /\ t \in Target
  /\ \/ Taken(q.st, t, n.st)
     \/ t \in Steps /\ Types(q.st)[t] = {} /\ Alike(q.st, n.st)
  /\ Said(r, "transition_applied", q.st.gate.step, "reject", t)

RejectFails(r, q, n) == /\ q.at = "decide" /\ OnTo(q, n, "insert")
                        /\ ResolveFlowTransition(registry[q.st.contract], q.st.step, "reject") = None
                        /\ Failed(q.st, n.st)
                        /\ Said(r, "transition_failed", q.st.gate.step, "reject", "none")

RejectEnds(r, q, n) ==
  /\ q.at = "resolved" /\ OnTo(q, n, "insert")
  /\ Rest(q.st, n.st) /\ n.st.step = q.st.step /\ n.st.status = q.st.status
  /\ n.st.gate = Resolved(GateForStep(q.from), "reject")
  /\ Said(r, "gate_resolved", q.from, "reject", "none")

Handled(r, q, n) ==
  \/ Stores(r, q, n)
  \/ runs'[r] = runs[r] /\
       \/ Quits(r, q, n) \/ Goes(r, q, n) \/ Admits(r, q, n) \/ Takes(r, q, n) \/ Fails(r, q, n)
       \/ Traces(r, q, n) \/ Opens(r, q, n) \/ Rejects(r, q, n) \/ RejectFails(r, q, n)
       \/ RejectEnds(r, q, n)

\* A request begins as n.
Enters(r, n) ==
  \E c \in Contracts : 
    /\ registry[c] # None /\ n.at = "insert" /\ n.st.gate = None /\ n.st.status = "accepted"
    /\ n.st.contract = c /\ n.st.step = registry[c].entry
    /\ n.st.steps = StepsFromFlow(registry[c])
    /\ Said(r, "started", n.st.step, "none", "none")

Reads(r, n) ==
  /\ runs[r] # None /\ n.st = runs[r] /\ log'[r] = log[r]
  /\ \/ /\ n.at = "admit" /\ n.from = n.st.step
        /\ ~IsTerminal(n.st) /\ n.st.status # "waiting_review"
     \/ /\ n.at = "decide" /\ n.st.gate # None /\ n.st.gate.status = "waiting_review"
        /\ n.from = n.st.gate.step /\ n.outcome \in Decisions

Begun(r, n) == /\ n # None /\ n.run = r /\ runs'[r] = runs[r]
               /\ Enters(r, n) \/ Reads(r, n)

LEMMA AlikeSteps ==
  ASSUME NEW x \in RunState, NEW s \in Steps, x.steps[s] # None, NEW status \in StepStatus
  PROVE  /\ SetStepStatus(x, s, status) \in RunState
         /\ SetStepStatus(x, s, status).steps[s] # None
         /\ Alike(x, SetStepStatus(x, s, status))
<1> DEFINE y == SetStepStatus(x, s, status)
<1>1. /\ y \in RunState
      /\ y = [x EXCEPT !.steps = [x.steps EXCEPT ![s] = [x.steps[s] EXCEPT !.status = status]]]
      /\ \A t \in Steps : y.steps[t] # None <=> x.steps[t] # None
      /\ \A t \in Steps : x.steps[t] # None => y.steps[t].type = x.steps[t].type
  BY SetStepStatusType
<1> HIDE DEF y
<1>2. Types(x) = Types(y)
  BY <1>1 DEF Types
<1>3. /\ y.contract = x.contract /\ y.step = x.step /\ y.status = x.status /\ y.gate = x.gate
  BY <1>1 DEF RunState
<1> QED BY <1>1, <1>2, <1>3 DEF Alike, Rest, y

LEMMA AlikeDone ==
  ASSUME NEW x \in RunState, x.steps[x.step] # None
  PROVE  Alike(x, StepDone(x)) /\ StepDone(x) \in RunState /\ StepDone(x).steps[x.step] # None
<1> DEFINE y == SetStepStatus(x, x.step, "completed")
<1>1. y \in RunState /\ y.steps[x.step] # None /\ Alike(x, y)
  BY AlikeSteps DEF RunState, StepStatus
<1>2. StepDone(x) = [y EXCEPT !.completed = y.completed + 1]
  BY DEF StepDone
<1> HIDE DEF y
<1> QED BY <1>1, <1>2 DEF RunState, Alike, Rest, Types

LEMMA TransitionTaken ==
  ASSUME NEW x \in RunState, NEW t \in Target, Applicable(x, t)
  PROVE  Taken(x, t, ApplyTransition(x, t))
<1> DEFINE y == ApplyTransition(x, t)
<1>1. CASE t \notin Steps
  <2>1. y = [x EXCEPT !.status = t, !.nextOp = None, !.gate = None]
    BY <1>1 DEF ApplyTransition
  <2> HIDE DEF y
  <2> QED BY <1>1, <2>1 DEF RunState, Taken, Rest, Types, y
<1>2. CASE t \in Steps
  <2> DEFINE there == [x EXCEPT !.step = t, !.gate = None, !.nextOp = x.steps[t].op]
             set(status) == SetStepStatus(there, t, status)
  <2>1. x.steps[t] # None /\ x.steps[t] \in ContractStep /\ x.steps[t].type \in StepTypes
    BY <1>2 DEF Applicable, RunState, ContractStep
  <2>2. /\ there \in RunState /\ there.steps = x.steps /\ there.contract = x.contract
        /\ there.step = t /\ there.gate = None
    BY <1>2, <2>1 DEF RunState, ContractStep
  <2>3. y = EnterStep(x, t)
    BY <1>2 DEF ApplyTransition
  <2>4. Types(x)[t] = {x.steps[t].type}
    BY <1>2, <2>1 DEF Types
  <2> HIDE DEF there
  <2>5. \A status \in StepStatus : set(status) \in RunState /\ Alike(there, set(status))
    BY <1>2, <2>1, <2>2, AlikeSteps
  <2>6. Types(there) = Types(x)
    BY <2>2 DEF Types
  <2>7. CASE x.steps[t].type = "human_gate"
    <3>1. EnterStep(x, t) = [set("waiting_review") EXCEPT !.status = "waiting_review",
                                                          !.gate = GateForStep(t)]
      BY <2>7 DEF EnterStep, there
    <3>2. set("waiting_review") \in RunState /\ Alike(there, set("waiting_review"))
      BY <2>5 DEF StepStatus
    <3> DEFINE z == set("waiting_review")
    <3> HIDE DEF z
    <3>3. z \in RunState /\ Alike(there, z)
      BY <3>2 DEF z
    <3>4. /\ y.status = "waiting_review" /\ y.gate = GateForStep(t) /\ y.step = z.step
          /\ y.contract = z.contract /\ y.steps = z.steps
      BY <2>3, <3>1, <3>2 DEF RunState, z
    <3> HIDE DEF y
    <3>5. Rest(x, y) /\ y.step = t
      BY <2>2, <2>6, <3>4, <3>3 DEF Alike, Rest, Types
    <3> QED BY <1>2, <2>4, <2>7, <3>4, <3>5 DEF Taken, Arrived, y
  <2>8. CASE x.steps[t].type \in {"connector_action", "deterministic_action"}
    <3>1. EnterStep(x, t) = [set("ready") EXCEPT !.status = "in_progress"]
      BY <2>8 DEF EnterStep, there
    <3>2. set("ready") \in RunState /\ Alike(there, set("ready"))
      BY <2>5 DEF StepStatus
    <3> DEFINE z == set("ready")
    <3> HIDE DEF z
    <3>3. z \in RunState /\ Alike(there, z)
      BY <3>2 DEF z
    <3>4. /\ y.status = "in_progress" /\ y.gate = z.gate /\ y.step = z.step
          /\ y.contract = z.contract /\ y.steps = z.steps
      BY <2>3, <3>1, <3>2 DEF RunState, z
    <3> HIDE DEF y
    <3>5. Rest(x, y) /\ y.step = t /\ y.gate = None
      BY <2>2, <2>6, <3>4, <3>3 DEF Alike, Rest, Types
    <3> QED BY <1>2, <2>4, <2>8, <3>4, <3>5 DEF Taken, Arrived, y
  <2>9. CASE x.steps[t].type = "terminal"
    <3>1. EnterStep(x, t) = [set("completed") EXCEPT !.status = "completed", !.nextOp = None]
      BY <2>9 DEF EnterStep, there
    <3>2. set("completed") \in RunState /\ Alike(there, set("completed"))
      BY <2>5 DEF StepStatus
    <3> DEFINE z == set("completed")
    <3> HIDE DEF z
    <3>3. z \in RunState /\ Alike(there, z)
      BY <3>2 DEF z
    <3>4. /\ y.status = "completed" /\ y.gate = z.gate /\ y.step = z.step
          /\ y.contract = z.contract /\ y.steps = z.steps
      BY <2>3, <3>1, <3>2 DEF RunState, z
    <3> HIDE DEF y
    <3>5. Rest(x, y) /\ y.step = t /\ y.gate = None
      BY <2>2, <2>6, <3>4, <3>3 DEF Alike, Rest, Types
    <3> QED BY <1>2, <2>4, <2>9, <3>4, <3>5 DEF Taken, Arrived, y
  <2> QED BY <2>1, <2>7, <2>8, <2>9 DEF StepTypes
<1> QED BY <1>1, <1>2

LEMMA OntoContinue ==
  ASSUME IInv, NEW w \in Workers, ~Idle(w), req[w].at # "evidence", NEW point \in Points,
         NEW x \in RunState, Continue(w, point, x)
  PROVE  /\ OnTo(req[w], req'[w], point) /\ req'[w].st = x
         /\ req'[w].outcome = req[w].outcome /\ req'[w].target = req[w].target
<1> DEFINE n == [req[w] EXCEPT !.at = point, !.st = x]
<1>1. req[w] \in Request /\ req \in [Workers -> Request \cup {None}]
  BY InFlight DEF IInv, ReqOK
<1>2. req'[w] = n
  BY <1>1 DEF Continue
<1>3. n \in Request
  BY <1>1 DEF Request
<1>4. n.at = point /\ n.run = req[w].run /\ n.from = req[w].from /\ n.st = x
      /\ n.outcome = req[w].outcome /\ n.target = req[w].target
  BY <1>1 DEF Request
<1> HIDE DEF n
<1> QED BY <1>2, <1>3, <1>4, RunAbsenceAssumption DEF OnTo

LEMMA SaidAppended ==
  ASSUME IInv, NEW r \in RunIds, NEW event, NEW s, NEW ref, NEW outcome, NEW detail,
         AppendObs(r, Observe(event, s, ref, outcome, detail))
  PROVE  /\ Said(r, event, s, outcome, detail)
         /\ event \in {"operation_admitted", "step_executed"} => Silent(r)
<1> DEFINE o == Observe(event, s, ref, outcome, detail)
<1>1. log'[r] = Append(log[r], o)
  BY DEF IInv, TypeOK, AppendObs
<1>2. o.event = event /\ o.step = s /\ o.outcome = outcome /\ o.detail = detail
  BY DEF Observe
<1> HIDE DEF o
<1> QED BY <1>1, <1>2 DEF Said, Silent

LEMMA StoringEffect ==
  ASSUME IInv, NEW w \in Workers, NEW r \in RunIds, On(w, r),
         Insert(w) \/ PersistRead(w) \/ PersistPut(w) \/ PersistFail(w)
  PROVE  Handled(r, req[w], req'[w])
<1>1. ~Idle(w) /\ req[w] \in Request /\ req \in [Workers -> Request \cup {None}]
      /\ req[w].run = r /\ req[w].at # "evidence" /\ req[w].st \in RunState
      /\ runs \in [RunIds -> RunState \cup {None}]
  BY InFlight DEF On, IInv, ReqOK, TypeOK
<1>2. CASE Insert(w)
  <2>1. OnTo(req[w], req'[w], "persist") /\ req'[w].st = req[w].st
    BY <1>1, <1>2, OntoContinue DEF Insert, Points
  <2> QED BY <1>1, <1>2, <2>1 DEF Insert, Handled, Stores
<1>3. CASE PersistRead(w)
  <2> DEFINE n == [req[w] EXCEPT !.at = "put", !.snap = log[r]]
  <2>1. req'[w] = n /\ log[r] \in Seq(Obs)
    BY <1>1, <1>3 DEF PersistRead, IInv, TypeOK
  <2>2. n \in Request
    BY <1>1, <2>1 DEF Request, Points
  <2>3. n.at = "put" /\ n.run = req[w].run /\ n.from = req[w].from /\ n.st = req[w].st
        /\ n.outcome = req[w].outcome /\ n.target = req[w].target
    BY <1>1 DEF Request
  <2> HIDE DEF n
  <2>4. Goes(r, req[w], req'[w])
    BY <1>3, <2>1, <2>2, <2>3, RunAbsenceAssumption DEF PersistRead, OnTo, Goes
  <2> QED BY <1>3, <2>4 DEF PersistRead, Handled
<1>4. CASE PersistPut(w) \/ PersistFail(w)
  BY <1>1, <1>4 DEF PersistPut, PersistFail, Respond, Handled, Quits, Silent
<1> QED BY <1>2, <1>3, <1>4

LEMMA AdmitEffect ==
  ASSUME IInv, NEW w \in Workers, NEW r \in RunIds, On(w, r), ExecuteDeny(w) \/ ExecuteAdmit(w)
  PROVE  Handled(r, req[w], req'[w])
<1>1. ~Idle(w) /\ req[w] \in Request /\ req \in [Workers -> Request \cup {None}]
      /\ req[w].run = r /\ req[w].st \in RunState
      /\ registry[req[w].st.contract] \in Flow /\ req[w].st.step \in Steps
  BY InFlight DEF On, IInv, ReqOK
<1>2. ASSUME Respond(w) PROVE req'[w] = None
  BY <1>1, <1>2 DEF Respond
<1>3. CASE ExecuteDeny(w)
  BY <1>1, <1>2, <1>3 DEF ExecuteDeny, Handled, Quits, Silent
<1>4. CASE ExecuteAdmit(w)
  <2>1. Silent(r) /\ runs'[r] = runs[r] /\ req[w].at = "admit" /\ ReqAdmission(w) \in Allowed
    BY <1>1, <1>4, SaidAppended DEF ExecuteAdmit
  <2>2. CASE Respond(w)
    BY <1>2, <2>1, <2>2 DEF Handled, Quits
  <2>3. ASSUME NEW point \in {"record", "call"},
               req' = [req EXCEPT ![w] = [Admitted(w) EXCEPT !.at = point]]
        PROVE  Handled(r, req[w], req'[w])
    <3> DEFINE x == [req[w].st EXCEPT !.adm = ReqAdmission(w), !.count = CountOf(r)]
               o == ExecuteOutcome(req[w].st)
               t == ResolveFlowTransition(registry[req[w].st.contract], req[w].st.step, o)
               n == [Admitted(w) EXCEPT !.at = point]
    <3>1. n.at = point /\ n.run = r /\ n.from = req[w].from /\ n.st = x /\ n.outcome = o /\ n.target = t
      BY <1>1 DEF Admitted, Request
    <3>2. req'[w] = n
      BY <1>1, <2>3
    <3>3. n # None
      <4>1. x \in RunState
        <5>1. ReqAdmission(w) \in Reasons /\ CountOf(r) \in Nat
          BY AdmissionType, CountType DEF ReqAdmission, IInv, TypeOK
        <5> QED BY <1>1, <5>1 DEF RunState
      <4>2. o \in Outcomes /\ t \in Target \cup {None}
        BY <1>1, ResolveType DEF ExecuteOutcome, Outcomes
      <4>3. n = [req[w] EXCEPT !.at = point, !.st = x, !.outcome = o, !.target = t]
        BY <1>1 DEF Admitted, Request
      <4> HIDE DEF x, o, t, n
      <4>4. n \in Request
        BY <1>1, <4>1, <4>2, <4>3 DEF Request, Points
      <4> QED BY <4>4, RunAbsenceAssumption
    <3>4. Alike(req[w].st, x)
      <4>1. x = [req[w].st EXCEPT !.adm = ReqAdmission(w), !.count = CountOf(r)]
        OBVIOUS
      <4> HIDE DEF x
      <4> QED BY <1>1, <4>1 DEF RunState, Alike, Rest, Types
    <3> HIDE DEF n, x
    <3>5. Admits(r, req[w], n)
      BY <1>1, <2>1, <3>1, <3>3, <3>4 DEF Admits, OnTo, ReqAdmission
    <3> QED BY <2>1, <3>2, <3>5 DEF Handled
  <2> QED BY <1>4, <2>2, <2>3 DEF ExecuteAdmit
<1> QED BY <1>3, <1>4

LEMMA RecordEffect ==
  ASSUME IInv, NEW w \in Workers, NEW r \in RunIds, On(w, r),
         ConnectorOk(w) \/ ConnectorErr(w) \/ ExecuteRecord(w) \/ ExecuteNoTransition(w)
           \/ ExecuteLostTarget(w) \/ ExecuteTrace(w)
  PROVE  Handled(r, req[w], req'[w])
<1> DEFINE q == req[w]
           d == StepDone(q.st)
<1>1. ~Idle(w) /\ q \in Request /\ req \in [Workers -> Request \cup {None}] /\ q # None
      /\ q.run = r /\ q.st \in RunState /\ q.target \in Target \cup {None}
      /\ q.at # "evidence" /\ q.st.steps[q.st.step] # None /\ q.st.step \in Steps
      /\ CountOf(r) \in Nat
  BY InFlight, CountType DEF On, Idle, IInv, ReqOK, Coherent, TypeOK
<1>2. Alike(q.st, d) /\ d \in RunState /\ d.steps[d.step] # None
  BY <1>1, AlikeDone DEF Alike
<1>3. CASE ConnectorErr(w) \/ ExecuteLostTarget(w)
  BY <1>1, <1>3 DEF ConnectorErr, ExecuteLostTarget, Respond, Handled, Quits, Silent
<1>4. CASE ConnectorOk(w)
  <2>1. /\ OnTo(q, req'[w], "record") /\ req'[w].st = q.st
        /\ req'[w].outcome = q.outcome /\ req'[w].target = q.target
    BY <1>1, <1>4, OntoContinue DEF ConnectorOk, Points
  <2> QED BY <1>4, <2>1 DEF ConnectorOk, Handled, Goes
<1>5. CASE ExecuteRecord(w)
  <2> DEFINE y == ApplyTransition(d, q.target)
             z == [y EXCEPT !.adm = "OPERATION_ALLOWED", !.count = CountOf(r)]
  <2>1. q.target \in Target /\ Applicable(d, q.target)
    <3>1. \A t \in Steps : d.steps[t] # None <=> q.st.steps[t] # None
      BY <1>1, StepDoneType
    <3> HIDE DEF d
    <3> QED BY <1>1, <1>5, <3>1 DEF ExecuteRecord, Applicable
  <2>2. Taken(d, q.target, y) /\ y \in RunState
    <3> HIDE DEF d
    <3> QED BY <1>2, <2>1, TransitionTaken, ApplyTransitionType
  <2>3. Alike(y, z)
    <3>1. z = [y EXCEPT !.adm = "OPERATION_ALLOWED", !.count = CountOf(r)]
      OBVIOUS
    <3> HIDE DEF y, z
    <3> QED BY <2>2, <3>1 DEF RunState, Alike, Rest, Types
  <2>4. z \in RunState
    BY <1>1, <2>2 DEF RunState, Reasons
  <2>5. q.at = "record" /\ Continue(w, "trace", z) /\ Silent(r) /\ runs'[r] = runs[r]
    BY <1>1, <1>5, SaidAppended DEF ExecuteRecord
  <2> HIDE DEF y, z, d
  <2>6. /\ OnTo(q, req'[w], "trace") /\ req'[w].st = z
        /\ req'[w].outcome = q.outcome /\ req'[w].target = q.target
    BY <1>1, <2>4, <2>5, OntoContinue DEF Points
  <2>7. Taken(q.st, q.target, z)
    BY <1>2, <2>2, <2>3 DEF Taken, Alike, Rest, Arrived
  <2> QED BY <2>1, <2>5, <2>6, <2>7 DEF Handled, Takes
<1>6. CASE ExecuteNoTransition(w)
  <2> DEFINE y == FailRun(d)
             z == [y EXCEPT !.count = CountOf(r)]
  <2>1. Failed(d, y) /\ y \in RunState
    <3> HIDE DEF d
    <3> QED BY <1>2 DEF FailRun, RunState, RunStatus, Terminals, Failed, Rest, Types
  <2>2. Alike(y, z)
    <3>1. z = [y EXCEPT !.count = CountOf(r)]
      OBVIOUS
    <3> HIDE DEF y, z
    <3> QED BY <2>1, <3>1 DEF RunState, Alike, Rest, Types
  <2>3. z \in RunState
    BY <1>1, <2>1 DEF RunState
  <2>4. /\ q.at = "record" /\ q.target = None /\ Continue(w, "insert", z) /\ runs'[r] = runs[r]
        /\ Said(r, "transition_failed", q.from, q.outcome, "none")
    BY <1>1, <1>6, SaidAppended DEF ExecuteNoTransition
  <2> HIDE DEF y, z, d
  <2>5. OnTo(q, req'[w], "insert") /\ req'[w].st = z
    BY <1>1, <2>3, <2>4, OntoContinue DEF Points
  <2>6. Failed(q.st, z)
    BY <1>2, <2>1, <2>2 DEF Failed, Alike, Rest
  <2> QED BY <2>4, <2>5, <2>6 DEF Handled, Fails
<1>7. CASE ExecuteTrace(w)
  <2> DEFINE z == [q.st EXCEPT !.count = CountOf(r)]
  <2>1. /\ q.at = "trace" /\ Continue(w, "insert", z) /\ runs'[r] = runs[r]
        /\ Said(r, "transition_applied", q.from, q.outcome, q.target)
    BY <1>1, <1>7, SaidAppended DEF ExecuteTrace
  <2>2. Alike(q.st, z) /\ z \in RunState
    <3>1. z = [q.st EXCEPT !.count = CountOf(r)]
      OBVIOUS
    <3> HIDE DEF z
    <3> QED BY <1>1, <3>1 DEF RunState, Alike, Rest, Types
  <2> HIDE DEF z
  <2>3. OnTo(q, req'[w], "insert") /\ req'[w].st = z
    BY <1>1, <2>1, <2>2, OntoContinue DEF Points
  <2> QED BY <2>1, <2>2, <2>3 DEF Handled, Traces
<1> QED BY <1>3, <1>4, <1>5, <1>6, <1>7

\* The gate a handler leaves on the run, and the observation that goes with it.
LEMMA ResolutionEffect ==
  ASSUME IInv, NEW w \in Workers, NEW r \in RunIds, On(w, r),
         NEW x \in RunState, NEW gate \in Gate, RecordResolution(w, x, gate)
  PROVE  /\ OnTo(req[w], req'[w], "insert")
         /\ Rest(x, req'[w].st) /\ req'[w].st.step = x.step /\ req'[w].st.status = x.status
         /\ req'[w].st.gate = gate
         /\ Said(r, "gate_resolved", gate.step, gate.decision, "none")
<1> DEFINE z == [x EXCEPT !.gate = gate, !.count = CountOf(r)]
<1>1. ~Idle(w) /\ req[w].run = r /\ req[w].at # "evidence" /\ CountOf(r) \in Nat
  BY CountType DEF On, IInv, TypeOK
<1>2. Continue(w, "insert", z) /\ Said(r, "gate_resolved", gate.step, gate.decision, "none")
  BY <1>1, SaidAppended DEF RecordResolution
<1>3. z \in RunState /\ z.step = x.step /\ z.status = x.status /\ z.gate = gate /\ Rest(x, z)
  BY <1>1 DEF RunState, Rest, Types
<1> HIDE DEF z
<1> QED BY <1>1, <1>2, <1>3, OntoContinue DEF Points

LEMMA DecideEffect ==
  ASSUME IInv, NEW w \in Workers, NEW r \in RunIds, On(w, r),
         Approve(w) \/ Reject(w) \/ RejectNoTransition(w) \/ RecordReject(w)
  PROVE  Handled(r, req[w], req'[w])
<1> DEFINE q == req[w]
<1>1. ~Idle(w) /\ q \in Request /\ req \in [Workers -> Request \cup {None}] /\ q # None
      /\ q.run = r /\ q.st \in RunState /\ q.from \in Steps
      /\ q.at # "evidence" /\ q.st.steps[q.st.step] # None /\ q.st.step \in Steps
      /\ CountOf(r) \in Nat /\ registry[q.st.contract] \in Flow
  BY InFlight, CountType DEF On, Idle, IInv, ReqOK, Coherent, TypeOK
<1>2. CASE Approve(w)
  <2> DEFINE z == SetStepStatus(q.st, q.st.step, "ready")
             y == [z EXCEPT !.status = "in_progress", !.nextOp = q.st.steps[q.st.step].op,
                            !.adm = "HUMAN_GATE_APPROVED"]
             gate == Resolved(q.st.gate, "approve")
  <2>1. q.at = "decide" /\ q.outcome = "approve" /\ RecordResolution(w, y, gate) /\ runs'[r] = runs[r]
    BY <1>2 DEF Approve
  <2>2. /\ gate \in Gate /\ gate.step = q.st.gate.step /\ gate.decision = "approve"
        /\ q.st.steps[q.st.step].op \in Ops \cup {None}
    BY <1>1, <2>1, Deciding DEF Resolved, Gate, Decisions, ContractStep
  <2>3. z \in RunState /\ Alike(q.st, z)
    BY <1>1, AlikeSteps DEF StepStatus
  <2> HIDE DEF z
  <2>4. y \in RunState /\ y.step = z.step /\ y.status = "in_progress" /\ Rest(z, y)
    BY <2>2, <2>3 DEF RunState, RunStatus, Reasons, Allowed, Rest, Types
  <2> HIDE DEF y
  <2>5. /\ OnTo(q, req'[w], "insert") /\ Rest(y, req'[w].st) /\ req'[w].st.step = y.step
        /\ req'[w].st.status = y.status /\ req'[w].st.gate = gate
        /\ Said(r, "gate_resolved", gate.step, gate.decision, "none")
    <3> HIDE DEF gate
    <3> QED BY <2>1, <2>2, <2>4, ResolutionEffect
  <2>6. Opens(r, q, req'[w])
    BY <2>1, <2>2, <2>3, <2>4, <2>5 DEF Opens, Rest, Alike
  <2> QED BY <2>1, <2>6 DEF Handled
<1>3. CASE RecordReject(w)
  <2> DEFINE gate == Resolved(GateForStep(q.from), "reject")
  <2>1. q.at = "resolved" /\ RecordResolution(w, q.st, gate) /\ runs'[r] = runs[r]
    BY <1>3 DEF RecordReject
  <2>2. gate \in Gate /\ gate.step = q.from /\ gate.decision = "reject"
    BY <1>1 DEF Gate, Resolved, GateForStep, Decisions
  <2>3. /\ OnTo(q, req'[w], "insert") /\ Rest(q.st, req'[w].st) /\ req'[w].st.step = q.st.step
        /\ req'[w].st.status = q.st.status /\ req'[w].st.gate = gate
        /\ Said(r, "gate_resolved", gate.step, gate.decision, "none")
    <3> HIDE DEF gate
    <3> QED BY <1>1, <2>1, <2>2, ResolutionEffect
  <2> QED BY <2>1, <2>2, <2>3 DEF Handled, RejectEnds
<1>4. CASE RejectNoTransition(w)
  <2> DEFINE y == FailRun(q.st)
             z == [y EXCEPT !.count = CountOf(r)]
  <2>1. Failed(q.st, y) /\ y \in RunState
    BY <1>1 DEF FailRun, RunState, RunStatus, Terminals, Failed, Rest, Types
  <2> HIDE DEF y
  <2>2. Alike(y, z) /\ z \in RunState
    BY <1>1, <2>1 DEF RunState, Alike, Rest, Types
  <2>3. /\ q.at = "decide" /\ Continue(w, "insert", z) /\ runs'[r] = runs[r]
        /\ ResolveFlowTransition(registry[q.st.contract], q.st.step, "reject") = None
        /\ Said(r, "transition_failed", q.st.gate.step, "reject", "none")
    BY <1>1, <1>4, SaidAppended DEF RejectNoTransition, RejectTarget, y
  <2> HIDE DEF z
  <2>4. OnTo(q, req'[w], "insert") /\ req'[w].st = z
    BY <1>1, <2>2, <2>3, OntoContinue DEF Points
  <2>5. Failed(q.st, z)
    BY <2>1, <2>2 DEF Failed, Alike, Rest
  <2> QED BY <2>3, <2>4, <2>5 DEF Handled, RejectFails
<1>5. CASE Reject(w)
  <2> DEFINE t == RejectTarget(w)
             x == SetStepStatus(q.st, q.st.step, "blocked")
             y == IF Applicable(x, t) THEN ApplyTransition(x, t) ELSE x
             z == [y EXCEPT !.adm = "HUMAN_GATE_REJECTED", !.count = CountOf(r)]
             n == [q EXCEPT !.at = "resolved", !.target = t, !.st = z]
  <2>1. /\ q.at = "decide" /\ t # None /\ req'[w] = n /\ runs'[r] = runs[r]
        /\ Said(r, "transition_applied", q.st.gate.step, "reject", t)
    BY <1>1, <1>5, SaidAppended DEF Reject
  <2>2. t \in Target /\ t = ResolveFlowTransition(registry[q.st.contract], q.st.step, "reject")
    BY <1>1, <2>1, ResolveType DEF RejectTarget, Outcomes
  <2>3. x \in RunState /\ Alike(q.st, x) /\ x.steps[x.step] # None
    <3>1. x \in RunState /\ Alike(q.st, x) /\ x.steps[q.st.step] # None
      BY <1>1, AlikeSteps DEF StepStatus
    <3> QED BY <3>1 DEF Alike
  <2> HIDE DEF x, t
  <2>4. /\ y \in RunState
        /\ Taken(x, t, y) \/ (t \in Steps /\ x.steps[t] = None /\ y = x)
    BY <2>2, <2>3, TransitionTaken, ApplyTransitionType DEF Applicable
  <2> HIDE DEF y
  <2>5. z \in RunState /\ Alike(y, z)
    BY <1>1, <2>4 DEF RunState, Reasons, Alike, Rest, Types
  <2> HIDE DEF z
  <2>6. /\ n \in Request /\ n.at = "resolved" /\ n.run = q.run /\ n.from = q.from /\ n.st = z
    BY <1>1, <2>2, <2>5 DEF Request, Points
  <2> HIDE DEF n
  <2>7. OnTo(q, n, "resolved")
    BY <2>6, RunAbsenceAssumption DEF OnTo
  <2>8. Taken(q.st, t, z) \/ (t \in Steps /\ Types(q.st)[t] = {} /\ Alike(q.st, z))
    <3>1. CASE Taken(x, t, y)
      BY <2>3, <2>5, <3>1 DEF Taken, Alike, Rest, Arrived
    <3>2. CASE t \in Steps /\ x.steps[t] = None /\ y = x
      <4>1. Types(x)[t] = {}
        BY <3>2 DEF Types
      <4> QED BY <2>3, <2>5, <3>2, <4>1 DEF Alike, Rest
    <3> QED BY <2>4, <3>1, <3>2
  <2>9. Rejects(r, q, n)
    BY <2>1, <2>2, <2>6, <2>7, <2>8 DEF Rejects
  <2> QED BY <2>1, <2>9 DEF Handled
<1> QED BY <1>2, <1>3, <1>4, <1>5

LEMMA BeginEffect ==
  ASSUME IInv, NEW w \in Workers, NEW r \in RunIds, Begins(w, r)
  PROVE  Begun(r, req'[w])
<1>1. /\ Idle(w) /\ On(w, r)' /\ runs'[r] = runs[r]
  BY BeginsOn
<1>2. req'[w] # None /\ req'[w].run = r
  BY <1>1 DEF On, Idle
<1>3. ASSUME NEW c \in Contracts, NEW auth \in BOOLEAN, Start(w, r, c, auth)
      PROVE  Enters(r, req'[w])
  <2> DEFINE f == registry[c]
             x == NewRun(c, f, auth)
             y == [x EXCEPT !.count = CountOf(r)]
  <2>1. f \in Flow /\ ValidFlow(f) /\ CountOf(r) \in Nat /\ f # None
    BY <1>3, CountType DEF Start, IInv, TypeOK
  <2>2. x \in RunState /\ x.step = f.entry /\ x.gate = None
    BY <2>1, NewRunType
  <2>3. x.contract = c /\ x.status = "accepted" /\ x.steps = StepsFromFlow(f)
    BY DEF NewRun
  <2>4. Serve(w, "insert", r, y, x.step, "none") /\ Said(r, "started", x.step, "none", "none")
    BY <1>3, SaidAppended DEF Start
  <2> HIDE DEF x
  <2>5. /\ y \in RunState /\ x.step \in Steps /\ y.step = f.entry /\ y.gate = None
        /\ y.contract = c /\ y.status = "accepted" /\ y.steps = StepsFromFlow(f)
    BY <2>1, <2>2, <2>3 DEF RunState
  <2> HIDE DEF y
  <2>6. req'[w].at = "insert" /\ req'[w].st = y
    BY <2>4, <2>5, ServeOn DEF Points
  <2> QED BY <2>1, <2>2, <2>4, <2>5, <2>6 DEF Enters
<1>4. ASSUME NEW s \in Steps, NEW op \in Ops, ExecuteRead(w, r, s, op)
      PROVE  Reads(r, req'[w])
  <2>1. req'[w].at = "admit" /\ req'[w].st = runs[r] /\ req'[w].from = s
    BY <1>4, InMap, ServeOn DEF ExecuteRead, Points
  <2> QED BY <1>4, <2>1 DEF ExecuteRead, Reads
<1>5. ASSUME NEW s \in Steps, NEW d \in Decisions, ResolveRead(w, r, s, d)
      PROVE  Reads(r, req'[w])
  <2>1. req'[w].at = "decide" /\ req'[w].st = runs[r] /\ req'[w].from = s /\ req'[w].outcome = d
    <3>1. /\ runs[r] \in RunState /\ Serve(w, "decide", r, runs[r], s, d)
          /\ d \in Outcomes \cup {"none"} /\ "decide" \in Points \ {"evidence"}
      BY <1>5, InMap DEF ResolveRead, Points, Decisions, Outcomes
    <3> QED BY <3>1, ServeOn
  <2> QED BY <1>5, <2>1 DEF ResolveRead, Reads
<1> QED BY <1>1, <1>2, <1>3, <1>4, <1>5 DEF Begins, Begun

LEMMA HandleEffect ==
  ASSUME IInv, NEW w \in Workers, NEW r \in RunIds, On(w, r), Handle(w)
  PROVE  Handled(r, req[w], req'[w])
<1>1. ~EvidenceAnswer(w)
  BY DEF EvidenceAnswer, On
<1> QED BY <1>1, StoringEffect, AdmitEffect, RecordEffect, DecideEffect DEF Handle

\* What a step does to run r: nothing, or what its one request does.
Refreshed(r) == /\ log'[r] = log[r] /\ Actor(r)' = Actor(r)
                /\ runs[r] # None /\ runs'[r] # None /\ Alike(runs[r], runs'[r])

LEMMA Effect ==
  ASSUME IInv, IInv', Apart, Apart', [Next]_vars, NEW r \in RunIds
  PROVE  /\ \/ Untouched(r)
            \/ Restart
            \/ Refreshed(r)
            \/ Actor(r) = None /\ Begun(r, Actor(r)')
            \/ Actor(r) # None /\ Handled(r, Actor(r), Actor(r)')
         /\ Actor(r) # None => Actor(r) \in Request /\ RequestSound(Actor(r)) /\ Actor(r).run = r
                                 /\ Actor(r).at # "evidence"
<1>1. \A w \in Workers : On(w, r) => Actor(r) = req[w]
  BY ActorIs
<1>2. Actor(r) # None => Actor(r) \in Request /\ RequestSound(Actor(r)) /\ Actor(r).run = r
                           /\ Actor(r).at # "evidence"
  <2>1. CASE \E w \in Workers : On(w, r)
    <3>1. PICK w \in Workers : On(w, r)
      BY <2>1
    <3> QED BY <1>1, <3>1, InFlight DEF On
  <2>2. CASE \A w \in Workers : ~On(w, r)
    BY <2>2, ActorIs
  <2> QED BY <2>1, <2>2
<1>3. ASSUME GetNext(r), Actor(r)' = Actor(r) PROVE Refreshed(r)
  <2> DEFINE x == [runs[r] EXCEPT !.adm = Admission(runs[r], registry[runs[r].contract])]
  <2>1. /\ runs[r] # None /\ runs[r] \in RunState /\ log'[r] = log[r]
        /\ runs'[r] = x
    BY <1>3, InMap DEF GetNext, IInv, TypeOK
  <2>2. x \in RunState /\ Alike(runs[r], x)
    BY <2>1, AdmissionType DEF RunState, Alike, Rest, Types
  <2> QED BY <1>3, <2>1, <2>2, RunAbsenceAssumption DEF Refreshed
<1>4. ASSUME NEW w \in Workers, Begins(w, r), Actor(r)' = req'[w]
      PROVE  Begun(r, Actor(r)')
  BY <1>4, BeginEffect
<1>5. ASSUME NEW w \in Workers, Handle(w), On(w, r), Actor(r) = req[w], Actor(r)' = req'[w]
      PROVE  Actor(r) # None /\ Handled(r, Actor(r), Actor(r)')
  BY <1>5, HandleEffect DEF On, Idle
<1> QED BY <1>2, <1>3, <1>4, <1>5, Focus

-----------------------------------------------------------------------------
(* What an approval is good for: the departures it allows, counted in the  *)
(* log.                                                                    *)

Marks(l, event, s, outcome) ==
  {i \in DOMAIN l : l[i].event = event /\ l[i].step = s /\ l[i].outcome = outcome}

LEMMA MarksFinite ==
  ASSUME NEW l \in Seq(Obs), NEW event, NEW s, NEW outcome
  PROVE  IsFiniteSet(Marks(l, event, s, outcome)) /\ Cardinality(Marks(l, event, s, outcome)) \in Nat
<1>1. Len(l) \in Nat /\ DOMAIN l = 1 .. Len(l)
  OBVIOUS
<1>2. IsFiniteSet(1 .. Len(l))
  BY <1>1, FS_Interval
<1>3. Marks(l, event, s, outcome) \in SUBSET (1 .. Len(l))
  BY <1>1 DEF Marks
<1>4. IsFiniteSet(Marks(l, event, s, outcome))
  BY <1>2, <1>3, FS_Subset
<1> QED BY <1>4, FS_CardinalityType

LEMMA MarksAppend ==
  ASSUME NEW l \in Seq(Obs), NEW o, NEW event, NEW s, NEW outcome
  PROVE  Cardinality(Marks(Append(l, o), event, s, outcome)) =
           Cardinality(Marks(l, event, s, outcome)) +
             (IF o.event = event /\ o.step = s /\ o.outcome = outcome THEN 1 ELSE 0)
<1> DEFINE m == Append(l, o)
           n == Len(l) + 1
           M == Marks(l, event, s, outcome)
           N == Marks(m, event, s, outcome)
<1>1. /\ Len(l) \in Nat /\ DOMAIN l = 1 .. Len(l) /\ DOMAIN m = 1 .. n
      /\ m[n] = o /\ \A i \in 1 .. Len(l) : m[i] = l[i]
  OBVIOUS
<1>2. IsFiniteSet(M) /\ Cardinality(M) \in Nat /\ n \notin M
  <2>1. M \subseteq 1 .. Len(l)
    BY <1>1 DEF Marks
  <2>2. n \notin 1 .. Len(l)
    BY <1>1
  <2> QED BY <2>1, <2>2, MarksFinite
<1> HIDE DEF m, n
<1>3. n = Len(l) + 1
  BY DEF n
<1>4. CASE o.event = event /\ o.step = s /\ o.outcome = outcome
  <2>1. N = M \cup {n}
    BY <1>1, <1>3, <1>4 DEF Marks
  <2> HIDE DEF M, N
  <2>2. Cardinality(N) = Cardinality(M) + 1
    BY <1>2, <2>1, FS_AddElement
  <2> QED BY <1>2, <1>4, <2>2 DEF M, N, m
<1>5. CASE ~(o.event = event /\ o.step = s /\ o.outcome = outcome)
  <2>1. N = M
    BY <1>1, <1>3, <1>5 DEF Marks
  <2> QED BY <1>2, <1>5, <2>1 DEF m
<1> QED BY <1>4, <1>5

Spent(r, s) == Count(r, "transition_applied", s, "approve")

Granted(r, s) == Count(r, "gate_resolved", s, "approve")

LEMMA Counted ==
  ASSUME IInv, NEW r \in RunIds
  PROVE  /\ \A s : Spent(r, s) \in Nat /\ Granted(r, s) \in Nat
         /\ Silent(r) => \A s : Spent(r, s)' = Spent(r, s) /\ Granted(r, s)' = Granted(r, s)
         /\ \A event, t, outcome, detail : Said(r, event, t, outcome, detail) => \A s :
              /\ Spent(r, s)' = Spent(r, s) +
                   (IF event = "transition_applied" /\ t = s /\ outcome = "approve" THEN 1 ELSE 0)
              /\ Granted(r, s)' = Granted(r, s) +
                   (IF event = "gate_resolved" /\ t = s /\ outcome = "approve" THEN 1 ELSE 0)
<1>1. log[r] \in Seq(Obs)
  BY DEF IInv, TypeOK
<1>2. \A s : /\ Spent(r, s) = Cardinality(Marks(log[r], "transition_applied", s, "approve"))
             /\ Granted(r, s) = Cardinality(Marks(log[r], "gate_resolved", s, "approve"))
  BY DEF Spent, Granted, Count, Marks
<1>3. \A s : /\ Spent(r, s)' = Cardinality(Marks(log'[r], "transition_applied", s, "approve"))
             /\ Granted(r, s)' = Cardinality(Marks(log'[r], "gate_resolved", s, "approve"))
  BY DEF Spent, Granted, Count, Marks
<1>4. \A s : Spent(r, s) \in Nat /\ Granted(r, s) \in Nat
  BY <1>1, <1>2, MarksFinite
<1>5. ASSUME NEW o, log'[r] = Append(log[r], o)
      PROVE  \A s : /\ Spent(r, s)' = Spent(r, s) +
                         (IF o.event = "transition_applied" /\ o.step = s /\ o.outcome = "approve" THEN 1 ELSE 0)
                    /\ Granted(r, s)' = Granted(r, s) +
                         (IF o.event = "gate_resolved" /\ o.step = s /\ o.outcome = "approve" THEN 1 ELSE 0)
  BY <1>1, <1>2, <1>3, <1>5, MarksAppend
<1>6. Silent(r) => \A s : Spent(r, s)' = Spent(r, s) /\ Granted(r, s)' = Granted(r, s)
  <2>1. CASE log'[r] = log[r]
    BY <1>2, <1>3, <2>1
  <2>2. ASSUME NEW o, log'[r] = Append(log[r], o), o.event \in {"operation_admitted", "step_executed"}
        PROVE  \A s : Spent(r, s)' = Spent(r, s) /\ Granted(r, s)' = Granted(r, s)
    BY <1>4, <1>5, <2>2
  <2> QED BY <2>1, <2>2 DEF Silent
<1>7. ASSUME NEW event, NEW t, NEW outcome, NEW detail, Said(r, event, t, outcome, detail)
      PROVE  \A s : /\ Spent(r, s)' = Spent(r, s) +
                         (IF event = "transition_applied" /\ t = s /\ outcome = "approve" THEN 1 ELSE 0)
                    /\ Granted(r, s)' = Granted(r, s) +
                         (IF event = "gate_resolved" /\ t = s /\ outcome = "approve" THEN 1 ELSE 0)
  BY <1>5, <1>7 DEF Said
<1> QED BY <1>4, <1>6, <1>7

Unspent(r, s) == Spent(r, s) < Granted(r, s)

Approved(x) == x.gate # None /\ x.gate.decision = "approve"

GateUnspent(r, x) == Approved(x) => Unspent(r, x.gate.step)

\* The run, unless its request is about to replace it; and that request.
MapUnspent(r, x, q) == x # None /\ (q = None \/ q.at # "insert") => GateUnspent(r, x)

RequestUnspent(r, q) ==
  /\ q.at \in {"admit", "call", "record", "insert"} => GateUnspent(r, q.st)
  /\ q.at = "admit" => q.from = q.st.step
  /\ q.at = "trace" => ~Approved(q.st)
  /\ q.at \in Leaving /\ q.outcome = "approve" => Unspent(r, q.from)

SpendOK(r) == /\ \A s \in Steps : Spent(r, s) <= Granted(r, s)
              /\ MapUnspent(r, runs[r], Actor(r))
              /\ Actor(r) # None => RequestUnspent(r, Actor(r))

\* What was unspent stays so unless a departure is recorded.
NoDeparture(r) == \/ Silent(r)
                  \/ \E event, t, outcome, detail : /\ Said(r, event, t, outcome, detail)
                                                    /\ event # "transition_applied" \/ outcome # "approve"

LEMMA UnspentStays ==
  ASSUME IInv, NEW r \in RunIds, NoDeparture(r)
  PROVE  /\ \A s : Spent(r, s) <= Granted(r, s) => Spent(r, s)' <= Granted(r, s)'
         /\ \A s : Unspent(r, s) => Unspent(r, s)'
         /\ \A x : GateUnspent(r, x) => GateUnspent(r, x)'
<1>1. \A s : /\ Spent(r, s) \in Nat /\ Granted(r, s) \in Nat
             /\ Spent(r, s)' = Spent(r, s)
             /\ Granted(r, s)' = Granted(r, s) \/ Granted(r, s)' = Granted(r, s) + 1
  <2>1. CASE Silent(r)
    BY <2>1, Counted
  <2>2. ASSUME NEW event, NEW t, NEW outcome, NEW detail, Said(r, event, t, outcome, detail),
               event # "transition_applied" \/ outcome # "approve"
        PROVE  \A s : /\ Spent(r, s) \in Nat /\ Granted(r, s) \in Nat
                      /\ Spent(r, s)' = Spent(r, s)
                      /\ Granted(r, s)' = Granted(r, s) \/ Granted(r, s)' = Granted(r, s) + 1
    <3>1. \A s : /\ Spent(r, s) \in Nat /\ Granted(r, s) \in Nat
                 /\ Spent(r, s)' = Spent(r, s) +
                      (IF event = "transition_applied" /\ t = s /\ outcome = "approve" THEN 1 ELSE 0)
                 /\ Granted(r, s)' = Granted(r, s) +
                      (IF event = "gate_resolved" /\ t = s /\ outcome = "approve" THEN 1 ELSE 0)
      BY <2>2, Counted
    <3> QED BY <2>2, <3>1
  <2> QED BY <2>1, <2>2 DEF NoDeparture
<1>2. \A s : Unspent(r, s) => Unspent(r, s)'
  BY <1>1 DEF Unspent
<1>3. \A s : Spent(r, s) <= Granted(r, s) => Spent(r, s)' <= Granted(r, s)'
  BY <1>1
<1>4. \A x : GateUnspent(r, x) => GateUnspent(r, x)'
  BY <1>2 DEF GateUnspent
<1> QED BY <1>2, <1>3, <1>4

\* A request about to leave a gated step holds an approval that is not spent.
LEMMA AdmittedUnspent ==
  ASSUME IInv, NEW r \in RunIds, NEW q \in Request, RequestSound(q), q.at = "admit",
         RequestUnspent(r, q), Admission(q.st, registry[q.st.contract]) \in Allowed,
         ExecuteOutcome(q.st) = "approve"
  PROVE  Unspent(r, q.from)
<1>1. StepType(q.st) = "human_gate"
  BY DEF ExecuteOutcome
<1>2. GateVerdict(q.st.gate) = "HUMAN_GATE_APPROVED"
  BY <1>1 DEF Admission, Allowed, GateVerdict
<1>3. Approved(q.st)
  BY <1>2 DEF GateVerdict, Approved
<1>4. q.st.gate.step = q.st.step
  BY <1>3 DEF RequestSound, Sound, Coherent, Approved
<1> QED BY <1>3, <1>4 DEF RequestUnspent, GateUnspent

LEMMA FreshGate ==
  ASSUME NEW x, NEW t, NEW y, Taken(x, t, y)
  PROVE  ~Approved(y)
BY DEF Taken, Arrived, Approved, GateForStep

LEMMA HandledSpends ==
  ASSUME IInv, NEW r \in RunIds, SpendOK(r),
         Actor(r) # None, Actor(r) \in Request, RequestSound(Actor(r)),
         Handled(r, Actor(r), Actor(r)')
  PROVE  SpendOK(r)'
<1> DEFINE q == Actor(r)
           n == Actor(r)'
           Bounded == \A s \in Steps : Spent(r, s)' <= Granted(r, s)'
           Settled == Bounded /\ MapUnspent(r, runs[r], Actor(r))' /\ (n # None => RequestUnspent(r, Actor(r))')
<1>1. Settled => SpendOK(r)'
  BY DEF SpendOK
<1>2. /\ RequestUnspent(r, q) /\ MapUnspent(r, runs[r], q)
      /\ \A s \in Steps : Spent(r, s) <= Granted(r, s)
  BY DEF SpendOK
<1>3. ASSUME NoDeparture(r) PROVE /\ Bounded
                                  /\ \A s : Unspent(r, s) => Unspent(r, s)'
                                  /\ \A x : GateUnspent(r, x) => GateUnspent(r, x)'
  BY <1>2, <1>3, UnspentStays
<1>4. ASSUME NEW x, ~Approved(x) PROVE GateUnspent(r, x)'
  BY <1>4 DEF GateUnspent
<1>5. CASE Stores(r, q, n)
  <2>1. NoDeparture(r) /\ GateUnspent(r, q.st)
    BY <1>2, <1>5 DEF Stores, NoDeparture, Silent, RequestUnspent
  <2> QED BY <1>1, <1>3, <1>5, <2>1 DEF Stores, OnTo, MapUnspent, RequestUnspent, Leaving
<1>6. ASSUME runs'[r] = runs[r], Quits(r, q, n) \/ Goes(r, q, n) \/ Admits(r, q, n) PROVE Settled
  <2>1. NoDeparture(r)
    BY <1>6 DEF Quits, Goes, Admits, NoDeparture, Silent
  <2>2. q.at # "insert"
    BY <1>6 DEF Quits, Goes, Admits
  <2>3. MapUnspent(r, runs[r], Actor(r))'
    BY <1>2, <1>3, <1>6, <2>1, <2>2 DEF MapUnspent
  <2>4. CASE Quits(r, q, n)
    BY <1>3, <2>1, <2>3, <2>4 DEF Quits
  <2>5. CASE Goes(r, q, n)
    BY <1>2, <1>3, <2>1, <2>3, <2>5 DEF Goes, OnTo, RequestUnspent, Leaving
  <2>6. CASE Admits(r, q, n)
    <3>1. n.outcome = "approve" => Unspent(r, q.from)
      BY <1>2, <2>6, AdmittedUnspent DEF Admits
    <3>2. GateUnspent(r, n.st)
      BY <1>2, <2>6 DEF Admits, RequestUnspent, GateUnspent, Approved, Alike
    <3> QED BY <1>3, <2>1, <2>3, <2>6, <3>1, <3>2 DEF Admits, OnTo, RequestUnspent
  <2> QED BY <1>6, <2>4, <2>5, <2>6
<1>7. ASSUME runs'[r] = runs[r], Takes(r, q, n) PROVE Settled
  <2>1. NoDeparture(r) /\ ~Approved(n.st)
    BY <1>7, FreshGate DEF Takes, NoDeparture
  <2> QED BY <1>2, <1>3, <1>7, <2>1 DEF Takes, OnTo, MapUnspent, RequestUnspent, Leaving
<1>8. ASSUME runs'[r] = runs[r], Rejects(r, q, n) PROVE Settled
  <2>1. NoDeparture(r)
    BY <1>8 DEF Rejects, NoDeparture
  <2> QED BY <1>2, <1>3, <1>8, <2>1 DEF Rejects, OnTo, MapUnspent, RequestUnspent, Leaving
<1>9. ASSUME runs'[r] = runs[r],
             Fails(r, q, n) \/ Traces(r, q, n) \/ RejectFails(r, q, n) \/ RejectEnds(r, q, n)
      PROVE  Settled
  <2>1. OnTo(q, n, "insert") /\ ~Approved(n.st)
    BY <1>2, <1>9 DEF Fails, Traces, RejectFails, RejectEnds, Failed, Approved, Alike,
                      RequestUnspent, Resolved, GateForStep
  <2>2. RequestUnspent(r, Actor(r))' /\ MapUnspent(r, runs[r], Actor(r))'
    BY <1>4, <2>1 DEF OnTo, RequestUnspent, MapUnspent, Leaving
  <2>3. Bounded
    <3>1. CASE NoDeparture(r)
      BY <1>3, <3>1
    <3>2. CASE ~NoDeparture(r)
      <4>1. Traces(r, q, n) /\ q.outcome = "approve"
        BY <1>9, <3>2 DEF Fails, Traces, RejectFails, RejectEnds, NoDeparture
      <4>2. Unspent(r, q.from)
        BY <1>2, <4>1 DEF Traces, RequestUnspent, Leaving
      <4>3. \A s : /\ Spent(r, s) \in Nat /\ Granted(r, s) \in Nat
                   /\ Spent(r, s)' = Spent(r, s) + (IF q.from = s THEN 1 ELSE 0)
                   /\ Granted(r, s)' = Granted(r, s)
        <5>1. Said(r, "transition_applied", q.from, "approve", q.target)
          BY <4>1 DEF Traces
        <5> QED BY <5>1, Counted
      <4> QED BY <1>2, <4>2, <4>3 DEF Unspent
    <3> QED BY <3>1, <3>2
  <2> QED BY <2>2, <2>3
<1>10. ASSUME runs'[r] = runs[r], Opens(r, q, n) PROVE Settled
  <2>1. NoDeparture(r)
    BY <1>10 DEF Opens, NoDeparture
  <2>2. ASSUME NEW s \in Steps, s = q.st.gate.step PROVE Unspent(r, s)'
    <3>1. Said(r, "gate_resolved", s, "approve", "none") /\ Spent(r, s) <= Granted(r, s)
      BY <1>2, <1>10, <2>2 DEF Opens
    <3>2. \A u : /\ Spent(r, u) \in Nat /\ Granted(r, u) \in Nat
                 /\ Spent(r, u)' = Spent(r, u) + 0
                 /\ Granted(r, u)' = Granted(r, u) + (IF s = u THEN 1 ELSE 0)
      BY <3>1, Counted
    <3> QED BY <3>1, <3>2 DEF Unspent
  <2>3. n.st.gate.step = q.st.gate.step /\ q.st.gate.step \in Steps
    <3>1. q.st.gate \in Gate
      BY <1>10 DEF Opens, RequestSound, Request, RunState
    <3> QED BY <1>10, <3>1 DEF Opens, Resolved, Gate
  <2>4. GateUnspent(r, Actor(r).st)'
    BY <2>2, <2>3 DEF GateUnspent
  <2> QED BY <1>3, <1>10, <2>1, <2>4 DEF Opens, OnTo, MapUnspent, RequestUnspent, Leaving
<1> QED BY <1>1, <1>5, <1>6, <1>7, <1>8, <1>9, <1>10 DEF Handled

LEMMA BegunSpends ==
  ASSUME IInv, NEW r \in RunIds, SpendOK(r), Actor(r) = None, Begun(r, Actor(r)')
  PROVE  SpendOK(r)'
<1> DEFINE n == Actor(r)'
<1>1. NoDeparture(r) /\ n # None /\ runs'[r] = runs[r]
  BY DEF Begun, Enters, Reads, NoDeparture, Silent
<1>2. /\ \A s \in Steps : Spent(r, s)' <= Granted(r, s)'
      /\ \A x : GateUnspent(r, x) => GateUnspent(r, x)'
  BY <1>1, UnspentStays DEF SpendOK
<1>3. MapUnspent(r, runs[r], Actor(r))'
  BY <1>1, <1>2 DEF SpendOK, MapUnspent
<1>4. RequestUnspent(r, Actor(r))'
  <2>1. CASE Enters(r, n)
    BY <2>1 DEF Enters, RequestUnspent, GateUnspent, Approved, Leaving
  <2>2. CASE Reads(r, n)
    <3>1. GateUnspent(r, n.st)
      BY <2>2 DEF SpendOK, MapUnspent, Reads
    <3> QED BY <1>2, <2>2, <3>1 DEF Reads, RequestUnspent, Leaving
  <2> QED BY <2>1, <2>2 DEF Begun
<1> QED BY <1>2, <1>3, <1>4 DEF SpendOK

LEMMA NothingSpent ==
  ASSUME NEW r \in RunIds
  PROVE  /\ log[r] = <<>> /\ runs[r] = None /\ Actor(r) = None => SpendOK(r)
         /\ log'[r] = <<>> /\ runs'[r] = None /\ Actor(r)' = None => SpendOK(r)'
<1>1. ASSUME NEW event, NEW s, NEW o
      PROVE  /\ log[r] = <<>> => Count(r, event, s, o) = 0
             /\ log'[r] = <<>> => Count(r, event, s, o)' = 0
  <2> DEFINE S == {i \in DOMAIN log[r] : /\ log[r][i].event = event
                                         /\ log[r][i].step = s /\ log[r][i].outcome = o}
  <2>1. /\ log[r] = <<>> => S = {}
        /\ log'[r] = <<>> => S' = {}
    OBVIOUS
  <2>2. Count(r, event, s, o) = Cardinality(S) /\ Count(r, event, s, o)' = Cardinality(S')
    BY DEF Count
  <2> HIDE DEF S
  <2> QED BY <2>1, <2>2, FS_EmptySet
<1> QED BY <1>1 DEF SpendOK, MapUnspent, Spent, Granted

LEMMA SpendStep ==
  ASSUME IInv, IInv', Apart, Apart', [Next]_vars, NEW r \in RunIds, SpendOK(r)
  PROVE  SpendOK(r)'
<1>1. CASE Untouched(r) \/ Refreshed(r)
  <2>1. /\ \A s : Spent(r, s)' = Spent(r, s) /\ Granted(r, s)' = Granted(r, s)
        /\ Actor(r)' = Actor(r)
    BY <1>1, Counted DEF Untouched, Refreshed, Silent
  <2>2. runs'[r] = runs[r] \/ (runs[r] # None /\ Alike(runs[r], runs'[r]))
    BY <1>1 DEF Untouched, Refreshed
  <2> QED BY <2>1, <2>2 DEF SpendOK, MapUnspent, RequestUnspent, GateUnspent, Unspent, Approved, Alike
<1>2. CASE Restart
  <2>1. \A w \in Workers : ~On(w, r)'
    BY <1>2 DEF Restart, On, Idle
  <2> QED BY <1>2, <2>1, ActorIs, NothingSpent DEF Restart
<1> QED BY <1>1, <1>2, HandledSpends, BegunSpends, Effect

\* While the requests on a run do not overlap, an approval opens its step once,
\* also when the flow comes back to the gate, the run is started again, or
\* contracts are registered anew.
THEOREM ApprovalsSpentOnce == Spec /\ []Apart => []ApprovalSpentOnce
<1> DEFINE Inv == \A r \in RunIds : SpendOK(r)
<1>1. Init => Inv
  BY ActorIs, NothingSpent DEF Init, On, Idle
<1>2. IInv /\ IInv' /\ Inv /\ Apart /\ Apart' /\ [Next]_vars => Inv'
  BY SpendStep
<1>3. Inv => ApprovalSpentOnce
  BY DEF SpendOK, ApprovalSpentOnce, Spent, Granted
<1> QED BY <1>1, <1>2, <1>3, IInvAlways, PTL DEF Spec

-----------------------------------------------------------------------------
(* Every state of a run has the steps of its contract's flow, as long as   *)
(* no contract is replaced; so a transition never loses its target.        *)

FlowTypes(f) == [s \in Steps |-> IF HasStep(f, s) THEN {f.steps[s].type} ELSE {}]

Follows(x) == Seeded[x.contract] # None /\ Types(x) = FlowTypes(Seeded[x.contract])

LEMMA FlowTypeAt ==
  ASSUME NEW f, NEW s \in Steps, HasStep(f, s)
  PROVE  FlowTypes(f)[s] = {f.steps[s].type}
BY DEF FlowTypes

LEMMA FollowsOn ==
  /\ \A x, y : Rest(x, y) /\ Follows(x) => Follows(y)
  /\ \A x, y : Alike(x, y) /\ Follows(x) => Follows(y)
  /\ \A x, t, y : Taken(x, t, y) /\ Follows(x) => Follows(y)
  /\ \A x, y : Failed(x, y) /\ Follows(x) => Follows(y)
BY DEF Rest, Alike, Taken, Failed, Follows

LEMMA FollowsNew ==
  ASSUME NEW c \in Contracts, Seeded[c] # None, NEW x, x.contract = c,
         x.steps = StepsFromFlow(Seeded[c])
  PROVE  Follows(x)
<1>1. ASSUME NEW s \in Steps PROVE Types(x)[s] = FlowTypes(Seeded[c])[s]
  <2>1. CASE HasStep(Seeded[c], s)
    <3> DEFINE e == [type |-> Seeded[c].steps[s].type, op |-> Seeded[c].steps[s].op,
                     status |-> IF s = Seeded[c].entry THEN "ready" ELSE "pending"]
    <3>1. x.steps[s] = e
      BY <2>1 DEF StepsFromFlow
    <3>2. e \in ContractStep
      BY <2>1, RunConstantsAssumption DEF HasStep, Flow, FlowStep, ContractStep, StepStatus
    <3>3. e.type = Seeded[c].steps[s].type
      OBVIOUS
    <3> HIDE DEF e
    <3> QED BY <2>1, <3>1, <3>2, <3>3, RunAbsenceAssumption DEF Types, FlowTypes
  <2>2. CASE ~HasStep(Seeded[c], s)
    BY <2>2 DEF StepsFromFlow, Types, FlowTypes
  <2> QED BY <2>1, <2>2
<1> QED BY <1>1 DEF Follows, Types, FlowTypes

\* The target of a transition of the flow is one of its steps, or an end.
LEMMA TargetKept ==
  ASSUME NEW x \in RunState, Follows(x), NEW outcome \in Outcomes,
         NEW t \in Steps, t = ResolveFlowTransition(Seeded[x.contract], x.step, outcome)
  PROVE  Types(x)[t] # {}
<1> DEFINE f == Seeded[x.contract]
<1>1. f # None /\ f \in Flow /\ ValidFlow(f) /\ x.step \in Steps
  BY RunConstantsAssumption DEF Follows, RunState
<1>2. HasStep(f, x.step) /\ t = PickNextTarget(f.steps[x.step], outcome)
  BY NamesAssumption DEF ResolveFlowTransition
<1>3. HasStep(f, t)
  <2>1. t = f.steps[x.step].next[outcome] \/ t = f.steps[x.step].next["default"]
    BY <1>2 DEF PickNextTarget
  <2>2. \A o \in Outcomes : f.steps[x.step].next[o] \in Steps => HasStep(f, f.steps[x.step].next[o])
    BY <1>1, <1>2 DEF ValidFlow, TransitionTargetsValid, StepIds
  <2>3. outcome \in Outcomes /\ "default" \in Outcomes
    BY DEF Outcomes
  <2> HIDE DEF f
  <2> QED BY <2>1, <2>2, <2>3
<1>4. Types(x)[t] = {f.steps[t].type}
  BY <1>3 DEF FlowTypes, Follows
<1> HIDE DEF f
<1> QED BY <1>4

FollowOK(r) == /\ runs[r] # None => Follows(runs[r])
               /\ Actor(r) # None => Follows(Actor(r).st)

LEMMA FollowStep ==
  ASSUME IInv, IInv', Apart, Apart', FlowsFixed, [Next]_vars, NEW r \in RunIds, FollowOK(r)
  PROVE  FollowOK(r)'
<1> DEFINE q == Actor(r)
           n == Actor(r)'
<1>1. CASE Untouched(r) \/ Refreshed(r)
  BY <1>1, FollowsOn DEF Untouched, Refreshed, FollowOK
<1>2. CASE Restart
  <2>1. \A w \in Workers : ~On(w, r)'
    BY <1>2 DEF Restart, On, Idle
  <2> QED BY <1>2, <2>1, ActorIs DEF Restart, FollowOK
<1>3. CASE q = None /\ Begun(r, n)
  <2>1. Follows(n.st)
    BY <1>3, FollowsNew DEF Begun, Enters, Reads, FlowsFixed, FollowOK
  <2> QED BY <1>3, <2>1 DEF Begun, FollowOK
<1>4. CASE q # None /\ Handled(r, q, n)
  <2>1. n # None => Follows(n.st)
    BY <1>4, FollowsOn
       DEF FollowOK, Handled, Stores, Quits, Goes, Admits, Takes, Fails, Traces, Opens,
           Rejects, RejectFails, RejectEnds
  <2>2. runs'[r] # None => Follows(runs'[r])
    BY <1>4
       DEF FollowOK, Handled, Stores, Quits, Goes, Admits, Takes, Fails, Traces, Opens,
           Rejects, RejectFails, RejectEnds
  <2> QED BY <2>1, <2>2 DEF FollowOK
<1> QED BY <1>1, <1>2, <1>3, <1>4, Effect

-----------------------------------------------------------------------------
(* The last move on record locates the run.                                *)

IsMove(o) == o.event \in {"started", "transition_applied", "transition_failed"}

Locates(m, x) ==
  CASE m.event = "started"           -> x.step = m.step /\ ~IsTerminal(x)
    [] m.event = "transition_failed" -> x.step = m.step /\ x.status = "failed"
    [] m.event = "transition_applied" /\ m.detail \in Steps -> x.step = m.detail
    [] m.event = "transition_applied" /\ m.detail \notin Steps -> x.step = m.step /\ x.status = m.detail

Places(l, x) == \E i \in DOMAIN l : /\ IsMove(l[i]) /\ Locates(l[i], x)
                                    /\ \A j \in DOMAIN l : IsMove(l[j]) => j <= i

LEMMA PlacedAlike ==
  ASSUME NEW l, NEW x, NEW y, x.step = y.step, x.status = y.status, Places(l, x)
  PROVE  Places(l, y)
BY DEF Places, Locates, IsTerminal

\* Whether the run waits or goes on, the log does not say.
LEMMA PlacedOpened ==
  ASSUME NEW l \in Seq(Obs), NEW x, NEW y, x.step = y.step, x.status = "waiting_review",
         y.status = "in_progress", Places(l, x)
  PROVE  Places(l, y)
<1>1. PICK i \in DOMAIN l : /\ IsMove(l[i]) /\ Locates(l[i], x)
                            /\ \A j \in DOMAIN l : IsMove(l[j]) => j <= i
  BY DEF Places
<1>2. l[i] \in Obs
  OBVIOUS
<1>3. l[i].detail \in Steps \/ l[i].detail # "waiting_review"
  BY <1>2 DEF Obs, Target, Terminals, Reasons, Allowed
<1>4. Locates(l[i], y)
  BY <1>1, <1>3 DEF IsMove, Locates, IsTerminal, Terminals
<1> QED BY <1>1, <1>4 DEF Places

LEMMA PlacedStill ==
  ASSUME IInv, NEW r \in RunIds, NEW x, Places(log[r], x),
         Silent(r) \/ (\E s, outcome, detail : Said(r, "gate_resolved", s, outcome, detail))
  PROVE  Places(log'[r], x)
<1>1. log[r] \in Seq(Obs)
  BY DEF IInv, TypeOK
<1>2. ASSUME NEW o, log'[r] = Append(log[r], o), ~IsMove(o) PROVE Places(log'[r], x)
  <2> DEFINE m == Append(log[r], o)
  <2>1. /\ DOMAIN m = 1 .. Len(log[r]) + 1 /\ DOMAIN log[r] = 1 .. Len(log[r])
        /\ Len(log[r]) \in Nat /\ m[Len(log[r]) + 1] = o
        /\ \A i \in 1 .. Len(log[r]) : m[i] = log[r][i]
    BY <1>1
  <2>2. PICK i \in DOMAIN log[r] : /\ IsMove(log[r][i]) /\ Locates(log[r][i], x)
                                   /\ \A j \in DOMAIN log[r] : IsMove(log[r][j]) => j <= i
    BY DEF Places
  <2> HIDE DEF m
  <2>3. \A j \in DOMAIN m : IsMove(m[j]) => j \in DOMAIN log[r]
    BY <1>2, <2>1
  <2>4. i \in DOMAIN m /\ m[i] = log[r][i] /\ \A j \in DOMAIN m : IsMove(m[j]) => j <= i
    BY <2>1, <2>2, <2>3
  <2>5. Places(m, x)
    BY <2>2, <2>4 DEF Places
  <2> QED BY <1>2, <2>5 DEF m
<1>3. ASSUME NEW s, NEW outcome, NEW detail, Said(r, "gate_resolved", s, outcome, detail)
      PROVE  Places(log'[r], x)
  BY <1>2, <1>3 DEF Said, IsMove
<1> QED BY <1>2, <1>3 DEF Silent, IsMove

LEMMA PlacedAnew ==
  ASSUME IInv, NEW r \in RunIds, NEW x, NEW event, NEW s, NEW outcome, NEW detail,
         Said(r, event, s, outcome, detail),
         \/ event = "started" /\ x.step = s /\ ~IsTerminal(x)
         \/ event = "transition_failed" /\ x.step = s /\ x.status = "failed"
         \/ event = "transition_applied" /\ detail \in Steps /\ x.step = detail
         \/ event = "transition_applied" /\ detail \notin Steps /\ x.step = s /\ x.status = detail
  PROVE  Places(log'[r], x)
<1>1. log[r] \in Seq(Obs)
  BY DEF IInv, TypeOK
<1>2. PICK o : /\ log'[r] = Append(log[r], o)
               /\ o.event = event /\ o.step = s /\ o.outcome = outcome /\ o.detail = detail
  BY DEF Said
<1> DEFINE m == Append(log[r], o)
           i == Len(log[r]) + 1
<1>3. DOMAIN m = 1 .. i /\ i \in DOMAIN m /\ m[i] = o /\ Len(log[r]) \in Nat
  BY <1>1
<1>4. IsMove(o) /\ Locates(o, x)
  <2>1. CASE event = "started" /\ x.step = s /\ ~IsTerminal(x)
    BY <1>2, <2>1 DEF IsMove, Locates
  <2>2. CASE event = "transition_failed" /\ x.step = s /\ x.status = "failed"
    BY <1>2, <2>2 DEF IsMove, Locates
  <2>3. CASE event = "transition_applied" /\ detail \in Steps /\ x.step = detail
    BY <1>2, <2>3 DEF IsMove, Locates
  <2>4. CASE event = "transition_applied" /\ detail \notin Steps /\ x.step = s /\ x.status = detail
    BY <1>2, <2>4 DEF IsMove, Locates
  <2> QED BY <2>1, <2>2, <2>3, <2>4
<1> HIDE DEF m
<1>5. \A j \in DOMAIN m : j <= i
  BY <1>3
<1> HIDE DEF i
<1>6. Places(m, x)
  BY <1>3, <1>4, <1>5 DEF Places
<1> QED BY <1>2, <1>6 DEF m

\* The run, unless its request has recorded a move it has not stored yet; and
\* that request.
MapPlaced(r, x, q) == x # None /\ (q = None \/ q.at \notin {"insert", "resolved"}) => Places(log[r], x)

RequestPlaced(r, q) ==
  /\ q.at \in {"admit", "call", "record", "decide", "resolved", "insert"} => Places(log[r], q.st)
  /\ q.at \in {"admit", "call", "record"} => q.from = q.st.step
  /\ q.at = "trace" =>
       /\ q.target \in Steps => q.st.step = q.target
       /\ q.target \notin Steps => q.st.step = q.from /\ q.st.status = q.target

LocOK(r) == /\ FollowOK(r)
            /\ MapPlaced(r, runs[r], Actor(r))
            /\ Actor(r) # None => RequestPlaced(r, Actor(r))

LEMMA HandledPlaces ==
  ASSUME IInv, IInv', NEW r \in RunIds, LocOK(r), FlowsFixed,
         Actor(r) # None, Actor(r) \in Request, RequestSound(Actor(r)),
         Handled(r, Actor(r), Actor(r)')
  PROVE  /\ MapPlaced(r, runs[r], Actor(r))'
         /\ Actor(r)' # None => RequestPlaced(r, Actor(r))'
<1> DEFINE q == Actor(r)
           n == Actor(r)'
           Kept == MapPlaced(r, runs[r], Actor(r))' /\ (n # None => RequestPlaced(r, Actor(r))')
           Marked(x) == Places(log'[r], x)
<1>1. RequestPlaced(r, q) /\ MapPlaced(r, runs[r], q) /\ Follows(q.st) /\ q.st \in RunState
      /\ Coherent(q.st)
  BY DEF LocOK, FollowOK, Request, RequestSound, Sound
<1>2. ASSUME NEW x, Silent(r), Places(log[r], x) PROVE Marked(x)
  BY <1>2, PlacedStill
<1>3. CASE Stores(r, q, n)
  BY <1>1, <1>3 DEF Stores, OnTo, RequestPlaced, MapPlaced
<1>4. ASSUME runs'[r] = runs[r],
             Quits(r, q, n) \/ Goes(r, q, n) \/ Admits(r, q, n) \/ Takes(r, q, n)
      PROVE  Kept
  <2>1. Silent(r) /\ q.at \notin {"insert", "resolved"}
    BY <1>4 DEF Quits, Goes, Admits, Takes, Silent
  <2>2. MapPlaced(r, runs[r], Actor(r))'
    BY <1>1, <1>2, <1>4, <2>1 DEF MapPlaced
  <2>3. CASE Quits(r, q, n) \/ Goes(r, q, n)
    BY <1>1, <1>2, <2>1, <2>2, <2>3 DEF Quits, Goes, OnTo, RequestPlaced
  <2>4. CASE Admits(r, q, n)
    <3>1. Marked(q.st) /\ n.st.step = q.st.step /\ n.st.status = q.st.status
      BY <1>1, <1>2, <2>1, <2>4 DEF Admits, RequestPlaced, Alike
    <3>2. Marked(n.st)
      BY <3>1, PlacedAlike
    <3> QED BY <1>1, <2>2, <2>4, <3>1, <3>2 DEF Admits, OnTo, RequestPlaced
  <2>5. CASE Takes(r, q, n)
    BY <1>1, <2>2, <2>5 DEF Takes, Taken, OnTo, RequestPlaced
  <2> QED BY <1>4, <2>2, <2>3, <2>4, <2>5
<1>5. ASSUME runs'[r] = runs[r], OnTo(q, n, "insert"), Marked(n.st) PROVE Kept
  BY <1>5 DEF OnTo, MapPlaced, RequestPlaced
<1>6. ASSUME Fails(r, q, n) PROVE Marked(n.st) /\ OnTo(q, n, "insert")
  BY <1>1, <1>6, PlacedAnew DEF Fails, Failed, RequestPlaced
<1>7. ASSUME Traces(r, q, n) PROVE Marked(n.st) /\ OnTo(q, n, "insert")
  <2>1. /\ Said(r, "transition_applied", q.from, q.outcome, q.target)
        /\ q.target \in Steps => n.st.step = q.target
        /\ q.target \notin Steps => n.st.step = q.from /\ n.st.status = q.target
    BY <1>1, <1>7 DEF Traces, Alike, RequestPlaced
  <2> QED BY <1>7, <2>1, PlacedAnew DEF Traces
<1>8. ASSUME q.at = "decide" PROVE q.st.gate.step = q.st.step
  BY <1>1, <1>8 DEF RequestSound, Coherent
<1>9. ASSUME RejectFails(r, q, n) PROVE Marked(n.st) /\ OnTo(q, n, "insert")
  BY <1>8, <1>9, PlacedAnew DEF RejectFails, Failed
<1>10. ASSUME Opens(r, q, n) PROVE Marked(n.st) /\ OnTo(q, n, "insert")
  <2>1. Places(log'[r], q.st)
    BY <1>1, <1>10, PlacedStill DEF Opens, RequestPlaced
  <2>2. q.st.status = "waiting_review" /\ n.st.status = "in_progress" /\ n.st.step = q.st.step
    BY <1>1, <1>10 DEF Opens, RequestSound, Coherent
  <2>3. log'[r] \in Seq(Obs)
    BY DEF IInv, TypeOK
  <2> QED BY <1>10, <2>1, <2>2, <2>3, PlacedOpened DEF Opens
<1>11. ASSUME RejectEnds(r, q, n) PROVE Marked(n.st) /\ OnTo(q, n, "insert")
  <2>1. Places(log'[r], q.st) /\ n.st.step = q.st.step /\ n.st.status = q.st.status
    BY <1>1, <1>11, PlacedStill DEF RejectEnds, RequestPlaced
  <2> QED BY <1>11, <2>1, PlacedAlike DEF RejectEnds
<1>12. ASSUME runs'[r] = runs[r], Rejects(r, q, n) PROVE Kept
  <2> DEFINE t == ResolveFlowTransition(Seeded[q.st.contract], q.st.step, "reject")
  <2>1. /\ OnTo(q, n, "resolved") /\ t \in Target
        /\ Taken(q.st, t, n.st) \/ (t \in Steps /\ Types(q.st)[t] = {} /\ Alike(q.st, n.st))
        /\ Said(r, "transition_applied", q.st.step, "reject", t)
    BY <1>8, <1>12 DEF Rejects, FlowsFixed
  <2>2. t \in Steps => Types(q.st)[t] # {}
    BY <1>1, TargetKept DEF Outcomes
  <2> HIDE DEF t
  <2>3. Taken(q.st, t, n.st)
    BY <2>1, <2>2
  <2>4. Marked(n.st)
    BY <2>1, <2>3, PlacedAnew DEF Taken
  <2> QED BY <2>1, <2>4 DEF OnTo, MapPlaced, RequestPlaced
<1> QED BY <1>3, <1>4, <1>5, <1>6, <1>7, <1>9, <1>10, <1>11, <1>12 DEF Handled

LEMMA BegunPlaces ==
  ASSUME IInv, NEW r \in RunIds, LocOK(r), Actor(r) = None, Begun(r, Actor(r)')
  PROVE  /\ MapPlaced(r, runs[r], Actor(r))'
         /\ RequestPlaced(r, Actor(r))'
<1> DEFINE n == Actor(r)'
<1>1. CASE Enters(r, n)
  <2>1. Places(log'[r], n.st)
    BY <1>1, PlacedAnew DEF Enters, IsTerminal, Terminals
  <2> QED BY <1>1, <2>1 DEF Enters, Begun, MapPlaced, RequestPlaced
<1>2. CASE Reads(r, n)
  <2>1. Places(log'[r], runs[r]) /\ n.st = runs[r] /\ runs'[r] = runs[r]
    BY <1>2 DEF LocOK, MapPlaced, Reads, Begun
  <2> QED BY <1>2, <2>1 DEF Reads, MapPlaced, RequestPlaced
<1> QED BY <1>1, <1>2 DEF Begun

LEMMA LocStep ==
  ASSUME IInv, IInv', Apart, Apart', FlowsFixed, [Next]_vars, NEW r \in RunIds, LocOK(r)
  PROVE  LocOK(r)'
<1>1. FollowOK(r)'
  BY FollowStep DEF LocOK
<1>2. CASE Untouched(r) \/ Refreshed(r)
  <2>1. log'[r] = log[r] /\ Actor(r)' = Actor(r)
    BY <1>2 DEF Untouched, Refreshed
  <2>2. runs'[r] # None /\ Places(log[r], runs[r]) => Places(log'[r], runs'[r])
    BY <1>2, <2>1, PlacedAlike DEF Untouched, Refreshed, Alike
  <2> QED BY <1>1, <1>2, <2>1, <2>2
          DEF LocOK, MapPlaced, RequestPlaced, Untouched, Refreshed
<1>3. CASE Restart
  <2>1. \A w \in Workers : ~On(w, r)'
    BY <1>3 DEF Restart, On, Idle
  <2> QED BY <1>1, <1>3, <2>1, ActorIs DEF Restart, LocOK, MapPlaced
<1> QED BY <1>1, <1>2, <1>3, HandledPlaces, BegunPlaces, Effect DEF LocOK

\* While the requests on a run do not overlap and no contract is replaced, the
\* last move on record says where a run with no request in flight stands.
THEOREM EvidenceAlwaysLocates == Spec /\ []Apart /\ []FlowsFixed => []EvidenceLocatesRun
<1> DEFINE Inv == \A r \in RunIds : LocOK(r)
<1>1. Init => Inv
  BY ActorIs DEF Init, On, Idle, LocOK, FollowOK, MapPlaced
<1>2. IInv /\ IInv' /\ Inv /\ Apart /\ Apart' /\ FlowsFixed /\ [Next]_vars => Inv'
  BY LocStep
<1>3. IInv /\ Inv => EvidenceLocatesRun
  <2> SUFFICES ASSUME IInv, NEW r \in RunIds, LocOK(r), runs[r] # None, Quiet(r)
               PROVE  Locates(LastMove(r), runs[r]) /\ IsMove(LastMove(r))
    BY DEF EvidenceLocatesRun, Locates, IsMove
  <2>1. Actor(r) = None
    BY ActorIs DEF Quiet, On
  <2>2. PICK i \in DOMAIN log[r] : /\ IsMove(log[r][i]) /\ Locates(log[r][i], runs[r])
                                   /\ \A j \in DOMAIN log[r] : IsMove(log[r][j]) => j <= i
    BY <2>1 DEF LocOK, MapPlaced, Places
  <2>3. i \in Moves(r) /\ \A j \in Moves(r) : j <= i
    BY <2>2 DEF Moves, IsMove
  <2>4. Moves(r) \subseteq Nat
    BY DEF Moves, IInv, TypeOK
  <2>5. i = CHOOSE k \in Moves(r) : \A j \in Moves(r) : j <= k
    BY <2>3, <2>4
  <2> QED BY <2>2, <2>5 DEF LastMove
<1> QED BY <1>1, <1>2, <1>3, IInvAlways, PTL DEF Spec

-----------------------------------------------------------------------------
(* The refinement of ContractWalk: a run is where its flow leads, except   *)
(* while a request holds the step the run will take next.                  *)

\* No rejection leads to a gate: that gate would be overwritten by the rejected
\* one, and the run would wait with nothing to resolve.
RejectionsPassGates ==
  \A c \in Contracts : \A s \in Steps :
    Seeded[c] # None /\ HasStep(Seeded[c], s) /\ Seeded[c].steps[s].type = "human_gate" =>
      LET t == ResolveFlowTransition(Seeded[c], s, "reject") IN
      t \in Steps => Seeded[c].steps[t].type # "human_gate"

Place(x, phase) == [contract |-> x.contract, step |-> x.step, phase |-> phase]

Pos(x) == Place(x, PhaseOf(x))

TypeAt(x) == Types(x)[x.step]

\* Where a run at x is after the transition for this outcome.
Moved(x, outcome) ==
  LET t == ResolveFlowTransition(Seeded[x.contract], x.step, outcome) IN
  IF t \in Steps
  THEN [contract |-> x.contract, step |-> t,
        phase |-> IF Types(x)[t] = {"human_gate"} THEN "review"
                  ELSE IF Types(x)[t] = {"terminal"} THEN "completed" ELSE "ready"]
  ELSE Place(x, IF t = None THEN "failed" ELSE t)

\* The phase lets the run at x leave its step with this outcome.
MayLeave(x, outcome) ==
  \/ outcome = "approve" /\ PhaseOf(x) = "approved"
  \/ outcome = "default" /\ PhaseOf(x) = "ready" /\ TypeAt(x) \in {{"connector_action"}, {"deterministic_action"}}
  \/ outcome = "reject" /\ PhaseOf(x) = "review"

Leads(x, y) ==
  \/ Seeded[y.contract] # None /\ y.step = Seeded[y.contract].entry /\ PhaseOf(y) = "ready"
  \/ x # None /\ PhaseOf(x) = "review" /\ Pos(y) = Place(x, "approved")
  \/ x # None /\ \E outcome \in Outcomes : MayLeave(x, outcome) /\ Pos(y) = Moved(x, outcome)

LEMMA PosAlike ==
  ASSUME NEW x, NEW y, Alike(x, y)
  PROVE  /\ PhaseOf(y) = PhaseOf(x) /\ Pos(y) = Pos(x) /\ TypeAt(y) = TypeAt(x)
         /\ \A outcome : Moved(y, outcome) = Moved(x, outcome)
         /\ \A outcome : MayLeave(y, outcome) = MayLeave(x, outcome)
<1>1. PhaseOf(y) = PhaseOf(x) /\ Pos(y) = Pos(x) /\ TypeAt(y) = TypeAt(x)
  BY DEF Alike, Rest, PhaseOf, Pos, Place, TypeAt, IsTerminal
<1>2. \A outcome : Moved(y, outcome) = Moved(x, outcome)
  BY DEF Alike, Rest, Moved, Place
<1>3. \A outcome : MayLeave(y, outcome) = MayLeave(x, outcome)
  BY <1>1 DEF MayLeave
<1> QED BY <1>1, <1>2, <1>3

LEMMA LeadsAlike ==
  ASSUME NEW x, NEW y, NEW z, Leads(x, y)
  PROVE  /\ Alike(y, z) => Leads(x, z)
         /\ x # None /\ z # None /\ Alike(x, z) => Leads(z, y)
<1>1. ASSUME Alike(y, z) PROVE Leads(x, z)
  BY <1>1, PosAlike DEF Leads, Alike, Rest
<1>2. ASSUME x # None, z # None, Alike(x, z) PROVE Leads(z, y)
  <2>1. /\ PhaseOf(z) = PhaseOf(x) /\ \A phase : Place(z, phase) = Place(x, phase)
        /\ \A outcome : Moved(z, outcome) = Moved(x, outcome)
        /\ \A outcome : MayLeave(z, outcome) = MayLeave(x, outcome)
    BY <1>2, PosAlike DEF Alike, Rest, Place
  <2> QED BY <1>2, <2>1 DEF Leads
<1> QED BY <1>1, <1>2

\* After a transition, the run is where the flow leads.
LEMMA TakenMoves ==
  ASSUME NEW x \in RunState, Follows(x), NEW outcome \in Outcomes, NEW t \in Target, NEW y,
         t = ResolveFlowTransition(Seeded[x.contract], x.step, outcome), Taken(x, t, y)
  PROVE  Pos(y) = Moved(x, outcome)
<1>1. y.contract = x.contract
  BY DEF Taken, Rest
<1>2. CASE t \in Steps
  <2>1. /\ y.step = t /\ Arrived(Types(x)[t], t, y)
        /\ Moved(x, outcome) = [contract |-> x.contract, step |-> t,
             phase |-> IF Types(x)[t] = {"human_gate"} THEN "review"
                       ELSE IF Types(x)[t] = {"terminal"} THEN "completed" ELSE "ready"]
    BY <1>2 DEF Taken, Moved
  <2>2. GateForStep(t) # None /\ GateForStep(t).status = "waiting_review"
    <3>1. GateForStep(t) \in Gate
      BY <1>2 DEF GateForStep, Gate
    <3> QED BY <3>1, RunAbsenceAssumption DEF GateForStep
  <2>3. CASE Types(x)[t] = {"human_gate"}
    <3>1. y.status = "waiting_review" /\ y.gate = GateForStep(t)
      BY <2>1, <2>3 DEF Arrived
    <3>2. PhaseOf(y) = "review"
      BY <2>2, <3>1 DEF PhaseOf, IsTerminal, Terminals
    <3> QED BY <1>1, <2>1, <2>3, <3>2 DEF Pos, Place
  <2>4. CASE Types(x)[t] = {"terminal"}
    <3>1. y.status = "completed"
      BY <2>1, <2>4 DEF Arrived
    <3>2. PhaseOf(y) = "completed"
      BY <3>1 DEF PhaseOf, IsTerminal, Terminals
    <3> QED BY <1>1, <2>1, <2>4, <3>2 DEF Pos, Place
  <2>5. CASE Types(x)[t] \in {{"connector_action"}, {"deterministic_action"}}
    <3>1. y.status = "in_progress" /\ y.gate = None
      BY <2>1, <2>5 DEF Arrived
    <3>2. PhaseOf(y) = "ready"
      BY <3>1 DEF PhaseOf, IsTerminal, Terminals
    <3>3. Types(x)[t] # {"human_gate"} /\ Types(x)[t] # {"terminal"}
      BY <2>5
    <3> QED BY <1>1, <2>1, <3>2, <3>3 DEF Pos, Place
  <2> QED BY <2>1, <2>3, <2>4, <2>5 DEF Arrived
<1>3. CASE t \notin Steps
  <2>1. t \in Terminals /\ t # None
    BY <1>3, NamesAssumption DEF Target
  <2>2. y.step = x.step /\ y.status = t
    BY <1>3 DEF Taken
  <2>3. PhaseOf(y) = t
    BY <2>1, <2>2 DEF PhaseOf, IsTerminal
  <2> QED BY <1>1, <1>3, <2>1, <2>2, <2>3 DEF Pos, Place, Moved
<1> QED BY <1>2, <1>3

LEMMA FailedMoves ==
  ASSUME NEW x \in RunState, NEW y, NEW outcome, Failed(x, y),
         ResolveFlowTransition(Seeded[x.contract], x.step, outcome) = None
  PROVE  Pos(y) = Moved(x, outcome)
<1>1. PhaseOf(y) = "failed"
  BY DEF Failed, PhaseOf, IsTerminal, Terminals
<1> QED BY <1>1, NamesAssumption DEF Failed, Rest, Pos, Place, Moved

\* An approved gate is the gate of a step that has one.
Gated(x) == Approved(x) => TypeAt(x) = {"human_gate"}

RequestWalks(x, q) ==
  /\ q.at \in {"admit", "call", "record", "decide"} => x # None /\ Alike(x, q.st)
  /\ q.at = "admit" => ~IsTerminal(q.st) /\ q.st.status # "waiting_review"
  /\ q.at \in {"call", "record"} =>
       /\ q.outcome \in Outcomes /\ MayLeave(q.st, q.outcome)
       /\ q.target = ResolveFlowTransition(Seeded[q.st.contract], q.st.step, q.outcome)
  /\ q.at = "trace" =>
       /\ x # None /\ q.outcome \in Outcomes /\ MayLeave(x, q.outcome)
       /\ Pos(q.st) = Moved(x, q.outcome) /\ ~Approved(q.st)
  /\ q.at = "resolved" =>
       /\ x # None /\ MayLeave(x, "reject")
       /\ Place(q.st, IF IsTerminal(q.st) THEN q.st.status ELSE "ready") = Moved(x, "reject")
  /\ q.at = "insert" => Leads(x, q.st) /\ Gated(q.st)

WalkOK(r) == /\ FollowOK(r)
             /\ runs[r] # None => Gated(runs[r])
             /\ Actor(r) # None => RequestWalks(runs[r], Actor(r))

LEMMA OwnType ==
  ASSUME NEW x \in RunState, Coherent(x)
  PROVE  TypeAt(x) = {StepType(x)} /\ StepType(x) \in StepTypes
BY DEF TypeAt, Types, StepType, Coherent, RunState, ContractStep

\* What is admitted may leave its step.
LEMMA AdmittedMayLeave ==
  ASSUME FlowsFixed, NEW x \in RunState, Coherent(x), Follows(x), Gated(x),
         ~IsTerminal(x), x.status # "waiting_review",
         Admission(x, registry[x.contract]) \in Allowed
  PROVE  ExecuteOutcome(x) \in Outcomes /\ MayLeave(x, ExecuteOutcome(x))
<1>1. TypeAt(x) = {StepType(x)} /\ StepType(x) \in StepTypes
  BY OwnType
<1>2. CASE StepType(x) = "human_gate"
  <2>1. GateVerdict(x.gate) = "HUMAN_GATE_APPROVED"
    BY <1>2 DEF Admission, Allowed, GateVerdict
  <2>2. x.gate # None /\ x.gate.status # "waiting_review" /\ x.gate.decision = "approve"
    BY <2>1 DEF GateVerdict
  <2> QED BY <1>2, <2>2 DEF ExecuteOutcome, MayLeave, PhaseOf, Outcomes
<1>3. CASE StepType(x) # "human_gate"
  <2>1. StepType(x) # "terminal"
    <3> SUFFICES ASSUME StepType(x) = "terminal" PROVE FALSE
      OBVIOUS
    <3> DEFINE f == Seeded[x.contract]
    <3>1. HasConnectorMetadata(f, x.step)
      BY DEF FlowsFixed, Admission, Allowed
    <3>2. HasStep(f, x.step) /\ f.steps[x.step].type = "connector_action"
      BY <3>1 DEF HasConnectorMetadata
    <3>3. TypeAt(x) = {f.steps[x.step].type}
      BY <3>2 DEF Follows, FlowTypes, TypeAt, RunState
    <3> QED BY <1>1, <3>2, <3>3
  <2>2. PhaseOf(x) = "ready"
    <3>1. ~Approved(x)
      BY <1>1, <1>3 DEF Gated
    <3> QED BY <3>1 DEF PhaseOf, Approved, Coherent
  <2> QED BY <1>1, <1>3, <2>1, <2>2 DEF ExecuteOutcome, MayLeave, StepTypes, Outcomes
<1> QED BY <1>2, <1>3

\* What a request that decides a gate knows.
LEMMA DecidingMayLeave ==
  ASSUME NEW x \in RunState, Coherent(x), x.gate # None, x.gate.status = "waiting_review"
  PROVE  PhaseOf(x) = "review" /\ MayLeave(x, "reject") /\ TypeAt(x) = {"human_gate"}
<1>1. PhaseOf(x) = "review"
  BY DEF Coherent, PhaseOf, IsTerminal, Terminals
<1> QED BY <1>1, OwnType DEF MayLeave, Coherent

\* A rejection moves on even when its target is lost on the resolved gate.
LEMMA RejectedMoves ==
  ASSUME RejectionsPassGates, NEW x \in RunState, Follows(x), TypeAt(x) = {"human_gate"},
         NEW t \in Target, NEW y, t = ResolveFlowTransition(Seeded[x.contract], x.step, "reject"),
         Taken(x, t, y)
  PROVE  Place(y, IF IsTerminal(y) THEN y.status ELSE "ready") = Moved(x, "reject")
<1> DEFINE f == Seeded[x.contract]
<1>1. Pos(y) = Moved(x, "reject")
  BY TakenMoves DEF Outcomes
<1>2. PhaseOf(y) = IF IsTerminal(y) THEN y.status ELSE "ready"
  <2>1. CASE t \notin Steps
    BY <2>1 DEF Taken, PhaseOf
  <2>2. CASE t \in Steps
    <3>1. x.contract \in Contracts /\ x.step \in Steps /\ f # None /\ HasStep(f, x.step)
      BY <2>2, NamesAssumption DEF RunState, Follows, ResolveFlowTransition
    <3>2. TypeAt(x) = {f.steps[x.step].type}
      BY <3>1, FlowTypeAt DEF TypeAt, Follows
    <3>3. f.steps[t].type # "human_gate"
      BY <2>2, <3>1, <3>2 DEF RejectionsPassGates
    <3>4. Types(x)[t] # {"human_gate"}
      BY <2>2, <3>3 DEF Follows, FlowTypes
    <3>5. y.gate = None
      BY <2>2, <3>4 DEF Taken, Arrived
    <3> QED BY <3>5 DEF PhaseOf
  <2> QED BY <2>1, <2>2
<1> QED BY <1>1, <1>2 DEF Pos

LEMMA HandledWalks ==
  ASSUME IInv, NEW r \in RunIds, WalkOK(r), FlowsFixed, RejectionsPassGates,
         Actor(r) # None, Actor(r) \in Request, RequestSound(Actor(r)),
         Handled(r, Actor(r), Actor(r)')
  PROVE  /\ runs'[r] # None => Gated(runs'[r])
         /\ Actor(r)' # None => RequestWalks(runs'[r], Actor(r)')
<1> DEFINE q == Actor(r)
           n == Actor(r)'
           x == runs[r]
           Kept == (x # None => Gated(x)) /\ (n # None => RequestWalks(x, n))
<1>1. /\ RequestWalks(x, q) /\ (x # None => Gated(x)) /\ Follows(q.st) /\ q.st \in RunState
      /\ Coherent(q.st) /\ q.target \in Target \cup {None}
      /\ q.at = "decide" => q.st.gate # None /\ q.st.gate.status = "waiting_review"
  BY DEF WalkOK, FollowOK, Request, RequestSound, Sound
<1>2. ASSUME NEW y, ~Approved(y) PROVE Gated(y)
  BY <1>2 DEF Gated
<1>3. CASE Stores(r, q, n)
  <2>1. n.at = "persist" /\ runs'[r] = q.st /\ Gated(q.st)
    BY <1>1, <1>3 DEF Stores, OnTo, RequestWalks
  <2> QED BY <2>1 DEF RequestWalks
<1>4. ASSUME OnTo(q, n, "insert"), Leads(x, n.st), Gated(n.st) PROVE Kept
  BY <1>1, <1>4 DEF OnTo, RequestWalks
<1>5. ASSUME Quits(r, q, n) PROVE Kept
  BY <1>1, <1>5 DEF Quits
<1>6. ASSUME Goes(r, q, n) PROVE Kept
  BY <1>1, <1>6 DEF Goes, OnTo, RequestWalks
<1>7. ASSUME Admits(r, q, n) PROVE Kept
  <2>1. x # None /\ Alike(x, q.st) /\ Alike(q.st, n.st) /\ Gated(q.st)
    <3>1. x # None /\ Alike(x, q.st) /\ Alike(q.st, n.st) /\ Gated(x)
      BY <1>1, <1>7 DEF Admits, RequestWalks
    <3> QED BY <3>1, PosAlike DEF Gated, Approved, Alike
  <2>2. n.outcome \in Outcomes /\ MayLeave(q.st, n.outcome)
    BY <1>1, <1>7, <2>1, AdmittedMayLeave DEF Admits, RequestWalks
  <2>3. MayLeave(n.st, n.outcome)
    BY <2>1, <2>2, PosAlike
  <2>4. Alike(x, n.st)
    BY <2>1 DEF Alike, Rest
  <2>5. n.target = ResolveFlowTransition(Seeded[n.st.contract], n.st.step, n.outcome)
    BY <1>7, <2>1 DEF Admits, FlowsFixed, Alike, Rest
  <2>6. n.at \in {"call", "record"}
    BY <1>7 DEF Admits, OnTo
  <2> QED BY <1>1, <2>1, <2>2, <2>3, <2>4, <2>5, <2>6 DEF RequestWalks
<1>8. ASSUME q.at = "record"
      PROVE  /\ x # None /\ Alike(x, q.st) /\ q.outcome \in Outcomes /\ MayLeave(x, q.outcome)
             /\ Moved(x, q.outcome) = Moved(q.st, q.outcome)
             /\ q.target = ResolveFlowTransition(Seeded[q.st.contract], q.st.step, q.outcome)
  <2>1. /\ x # None /\ Alike(x, q.st) /\ q.outcome \in Outcomes /\ MayLeave(q.st, q.outcome)
        /\ q.target = ResolveFlowTransition(Seeded[q.st.contract], q.st.step, q.outcome)
    BY <1>1, <1>8 DEF RequestWalks
  <2> QED BY <2>1, PosAlike
<1>9. ASSUME Takes(r, q, n) PROVE Kept
  <2>1. /\ n.at = "trace" /\ q.at = "record" /\ n.outcome = q.outcome
        /\ q.target \in Target /\ Taken(q.st, q.target, n.st)
    BY <1>9 DEF Takes, OnTo
  <2>2. Pos(n.st) = Moved(q.st, q.outcome) /\ ~Approved(n.st)
    BY <1>1, <1>8, <2>1, TakenMoves, FreshGate
  <2> QED BY <1>1, <1>8, <2>1, <2>2 DEF RequestWalks
<1>10. ASSUME Fails(r, q, n) PROVE Kept
  <2>1. q.at = "record" /\ OnTo(q, n, "insert") /\ Failed(q.st, n.st) /\ q.target = None
    BY <1>10 DEF Fails
  <2>2. Pos(n.st) = Moved(q.st, q.outcome)
    BY <1>1, <1>8, <2>1, FailedMoves
  <2>3. Leads(x, n.st)
    BY <1>8, <2>1, <2>2 DEF Leads
  <2>4. ~Approved(n.st)
    BY <2>1 DEF Failed, Approved
  <2> QED BY <1>2, <1>4, <2>1, <2>3, <2>4
<1>11. ASSUME Traces(r, q, n) PROVE Kept
  <2>1. OnTo(q, n, "insert") /\ Alike(q.st, n.st) /\ q.at = "trace"
    BY <1>11 DEF Traces
  <2>2. /\ x # None /\ q.outcome \in Outcomes /\ MayLeave(x, q.outcome)
        /\ Pos(q.st) = Moved(x, q.outcome) /\ ~Approved(q.st)
    BY <1>1, <2>1 DEF RequestWalks
  <2>3. Pos(n.st) = Moved(x, q.outcome) /\ ~Approved(n.st)
    BY <2>1, <2>2, PosAlike DEF Approved, Alike
  <2>4. Leads(x, n.st)
    BY <2>2, <2>3 DEF Leads
  <2> QED BY <1>2, <1>4, <2>1, <2>3, <2>4
<1>12. ASSUME q.at = "decide"
       PROVE  /\ x # None /\ Alike(x, q.st) /\ PhaseOf(x) = "review" /\ MayLeave(x, "reject")
              /\ TypeAt(q.st) = {"human_gate"} /\ Moved(x, "reject") = Moved(q.st, "reject")
  <2>1. x # None /\ Alike(x, q.st)
    BY <1>1, <1>12 DEF RequestWalks
  <2>2. PhaseOf(q.st) = "review" /\ MayLeave(q.st, "reject") /\ TypeAt(q.st) = {"human_gate"}
    BY <1>1, <1>12, DecidingMayLeave
  <2> QED BY <2>1, <2>2, PosAlike
<1>13. ASSUME Opens(r, q, n) PROVE Kept
  <2>1. /\ q.at = "decide" /\ OnTo(q, n, "insert") /\ Rest(q.st, n.st)
        /\ n.st.step = q.st.step /\ n.st.status = "in_progress"
        /\ n.st.gate = Resolved(q.st.gate, "approve")
    BY <1>13 DEF Opens
  <2>2. /\ n.st.gate # None /\ n.st.gate.status = "resolved" /\ n.st.gate.decision = "approve"
    <3>1. q.st.gate \in Gate
      BY <1>1, <2>1 DEF RunState
    <3>2. n.st.gate \in Gate /\ n.st.gate.status = "resolved" /\ n.st.gate.decision = "approve"
      BY <2>1, <3>1 DEF Resolved, Gate, Decisions
    <3> QED BY <3>2, RunAbsenceAssumption
  <2>3. PhaseOf(n.st) = "approved"
    BY <2>1, <2>2 DEF PhaseOf, IsTerminal, Terminals
  <2>4. Pos(n.st) = Place(x, "approved")
    BY <1>12, <2>1, <2>3 DEF Pos, Place, Alike, Rest
  <2>5. Gated(n.st)
    BY <1>12, <2>1 DEF Gated, TypeAt, Rest
  <2>6. Leads(x, n.st)
    BY <1>12, <2>1, <2>4 DEF Leads
  <2> QED BY <1>4, <2>1, <2>5, <2>6
<1>14. ASSUME RejectFails(r, q, n) PROVE Kept
  <2>1. /\ q.at = "decide" /\ OnTo(q, n, "insert") /\ Failed(q.st, n.st)
        /\ ResolveFlowTransition(Seeded[q.st.contract], q.st.step, "reject") = None
    BY <1>14 DEF RejectFails, FlowsFixed
  <2>2. Pos(n.st) = Moved(x, "reject")
    BY <1>1, <1>12, <2>1, FailedMoves
  <2>3. Leads(x, n.st)
    BY <1>12, <2>1, <2>2 DEF Leads, Outcomes
  <2>4. ~Approved(n.st)
    BY <2>1 DEF Failed, Approved
  <2> QED BY <1>2, <1>4, <2>1, <2>3, <2>4
<1>15. ASSUME Rejects(r, q, n) PROVE Kept
  <2> DEFINE t == ResolveFlowTransition(Seeded[q.st.contract], q.st.step, "reject")
  <2>1. /\ q.at = "decide" /\ n.at = "resolved" /\ t \in Target
        /\ Taken(q.st, t, n.st) \/ (t \in Steps /\ Types(q.st)[t] = {} /\ Alike(q.st, n.st))
    BY <1>15 DEF Rejects, OnTo, FlowsFixed
  <2>2. Taken(q.st, t, n.st)
    BY <1>1, <2>1, TargetKept DEF Outcomes
  <2>3. Place(n.st, IF IsTerminal(n.st) THEN n.st.status ELSE "ready") = Moved(q.st, "reject")
    BY <1>1, <1>12, <2>1, <2>2, RejectedMoves
  <2> HIDE DEF t
  <2> QED BY <1>1, <1>12, <2>1, <2>3 DEF RequestWalks
<1>16. ASSUME RejectEnds(r, q, n) PROVE Kept
  <2>1. /\ q.at = "resolved" /\ OnTo(q, n, "insert") /\ Rest(q.st, n.st)
        /\ n.st.step = q.st.step /\ n.st.status = q.st.status
        /\ n.st.gate = Resolved(GateForStep(q.from), "reject")
    BY <1>16 DEF RejectEnds
  <2>2. n.st.gate.status = "resolved" /\ n.st.gate.decision = "reject"
    BY <2>1 DEF Resolved, GateForStep
  <2>3. PhaseOf(n.st) = IF IsTerminal(q.st) THEN q.st.status ELSE "ready"
    BY <2>1, <2>2 DEF PhaseOf, IsTerminal
  <2>4. x # None /\ MayLeave(x, "reject") /\ Pos(n.st) = Moved(x, "reject")
    BY <1>1, <2>1, <2>3 DEF RequestWalks, Pos, Place, Rest
  <2>5. Leads(x, n.st)
    BY <2>4 DEF Leads, Outcomes
  <2> QED BY <1>2, <1>4, <2>1, <2>2, <2>5 DEF Approved
<1> QED BY <1>3, <1>5, <1>6, <1>7, <1>9, <1>10, <1>11, <1>13, <1>14, <1>15, <1>16 DEF Handled

LEMMA BegunWalks ==
  ASSUME NEW r \in RunIds, WalkOK(r), FlowsFixed, Actor(r) = None, Begun(r, Actor(r)')
  PROVE  RequestWalks(runs'[r], Actor(r)')
<1> DEFINE n == Actor(r)'
<1>1. CASE Enters(r, n)
  <2>1. n.at = "insert" /\ n.st.gate = None /\ n.st.status = "accepted"
        /\ Seeded[n.st.contract] # None /\ n.st.step = Seeded[n.st.contract].entry
    BY <1>1 DEF Enters, FlowsFixed
  <2>2. PhaseOf(n.st) = "ready" /\ Gated(n.st)
    BY <2>1 DEF PhaseOf, IsTerminal, Terminals, Gated, Approved
  <2> QED BY <2>1, <2>2 DEF Leads, RequestWalks
<1>2. CASE Reads(r, n)
  <2>1. Alike(runs'[r], n.st)
    BY <1>2 DEF Reads, Begun, Alike, Rest
  <2> QED BY <1>2, <2>1 DEF Reads, Begun, RequestWalks
<1> QED BY <1>1, <1>2 DEF Begun

LEMMA WalksAlike ==
  ASSUME NEW x, NEW y, NEW q, RequestWalks(x, q), x # None, y # None, Alike(x, y)
  PROVE  RequestWalks(y, q)
<1>1. Leads(x, q.st) => Leads(y, q.st)
  BY LeadsAlike
<1>2. \A outcome : /\ Moved(y, outcome) = Moved(x, outcome)
                   /\ MayLeave(y, outcome) = MayLeave(x, outcome)
  BY PosAlike
<1>3. Alike(x, q.st) => Alike(y, q.st)
  BY DEF Alike, Rest
<1> QED BY <1>1, <1>2, <1>3 DEF RequestWalks

LEMMA WalkStep ==
  ASSUME IInv, IInv', Apart, Apart', FlowsFixed, RejectionsPassGates, ~Restart, [Next]_vars,
         NEW r \in RunIds, WalkOK(r)
  PROVE  WalkOK(r)'
<1>1. FollowOK(r)'
  BY FollowStep DEF WalkOK
<1>2. WalkOK(r)' <=> /\ FollowOK(r)'
                     /\ runs'[r] # None => Gated(runs'[r])
                     /\ Actor(r)' # None => RequestWalks(runs'[r], Actor(r)')
  BY DEF WalkOK, Gated, TypeAt, Types, Approved, RequestWalks
<1>3. CASE Untouched(r)
  BY <1>1, <1>2, <1>3 DEF Untouched, WalkOK
<1>4. CASE Refreshed(r)
  <2>1. Gated(runs'[r])
    BY <1>4, PosAlike DEF Refreshed, WalkOK, Gated, Approved, Alike
  <2>2. Actor(r) # None => RequestWalks(runs'[r], Actor(r))
    BY <1>4, WalksAlike DEF Refreshed, WalkOK
  <2> QED BY <1>1, <1>2, <1>4, <2>1, <2>2 DEF Refreshed
<1>5. CASE Actor(r) = None /\ Begun(r, Actor(r)')
  <2>1. runs'[r] # None => Gated(runs'[r])
    BY <1>5 DEF Begun, WalkOK
  <2> QED BY <1>1, <1>2, <1>5, <2>1, BegunWalks
<1>6. CASE Actor(r) # None /\ Handled(r, Actor(r), Actor(r)')
  BY <1>1, <1>2, <1>6, Effect, HandledWalks
<1> QED BY <1>3, <1>4, <1>5, <1>6, Effect

-----------------------------------------------------------------------------
(* The walk takes the step the run takes.                                  *)

LEMMA SameResolution ==
  \A f, s, o : Walk!ResolveFlowTransition(f, s, o) = ResolveFlowTransition(f, s, o)
BY DEF Walk!ResolveFlowTransition, Walk!HasStep, Walk!PickNextTarget,
       ResolveFlowTransition, HasStep, PickNextTarget

Shift(p, t, phase) == [p EXCEPT !.step = t, !.phase = phase]

LEMMA ShiftIs ==
  ASSUME NEW c, NEW s, NEW f, NEW t, NEW g
  PROVE  Shift([contract |-> c, step |-> s, phase |-> f], t, g)
           = [contract |-> c, step |-> t, phase |-> g]
<1> DEFINE u == [[contract |-> c, step |-> s, phase |-> f] EXCEPT !.step = t]
<1>1. u = [contract |-> c, step |-> t, phase |-> f]
  OBVIOUS
<1>2. [[contract |-> c, step |-> s, phase |-> f] EXCEPT !.step = t, !.phase = g]
        = [u EXCEPT !.phase = g]
  OBVIOUS
<1> HIDE DEF u
<1> QED BY <1>1, <1>2 DEF Shift

LEMMA MovedIsMove ==
  ASSUME NEW x \in RunState, Follows(x), NEW outcome \in Outcomes, NEW p, p = Pos(x)
  PROVE  Walk!Move(p, outcome) = Moved(x, outcome)
<1> DEFINE t == ResolveFlowTransition(Seeded[x.contract], x.step, outcome)
           f == Seeded[x.contract]
<1>1. p = [contract |-> x.contract, step |-> x.step, phase |-> PhaseOf(x)]
  BY DEF Pos, Place
<1>2. p.contract = x.contract /\ p.step = x.step
  BY <1>1
<1>3. Walk!Move(p, outcome) =
        IF t \in Steps THEN Walk!ArriveAt(p, t) ELSE [p EXCEPT !.phase = IF t = None THEN "failed" ELSE t]
  BY <1>2, SameResolution DEF Walk!Move
<1> HIDE DEF t
<1>4. CASE t \notin Steps
  <2>1. Moved(x, outcome) = Place(x, IF t = None THEN "failed" ELSE t)
    BY <1>4 DEF Moved, t
  <2> QED BY <1>1, <1>3, <1>4, <2>1 DEF Place
<1>5. CASE t \in Steps
  <2>1. Types(x)[t] # {}
    BY <1>5, TargetKept DEF t
  <2>2. Types(x)[t] = {f.steps[t].type}
    BY <1>5, <2>1 DEF Follows, FlowTypes
  <2> DEFINE phase == CASE f.steps[t].type = "human_gate" -> "review"
                        [] f.steps[t].type = "terminal"   -> "completed"
                        [] OTHER                          -> "ready"
  <2>3. Walk!ArriveAt(p, t) = Shift(p, t, phase)
    BY <1>2 DEF Walk!ArriveAt, Shift
  <2>4. phase = IF Types(x)[t] = {"human_gate"} THEN "review"
                ELSE IF Types(x)[t] = {"terminal"} THEN "completed" ELSE "ready"
    BY <2>2
  <2>5. Moved(x, outcome) = [contract |-> x.contract, step |-> t,
          phase |-> IF Types(x)[t] = {"human_gate"} THEN "review"
                    ELSE IF Types(x)[t] = {"terminal"} THEN "completed" ELSE "ready"]
    BY <1>5 DEF Moved, t
  <2> HIDE DEF phase
  <2>6. Shift(p, t, phase) = [contract |-> x.contract, step |-> t, phase |-> phase]
    BY <1>1, ShiftIs
  <2> QED BY <1>3, <1>5, <2>3, <2>4, <2>5, <2>6
<1> QED BY <1>4, <1>5

LEMMA PositionIs ==
  ASSUME NEW x \in RunState
  PROVE  x # None /\ PositionOf(x) = Pos(x) /\ PositionOf(x) # None
<1>1. x # None
  BY RunAbsenceAssumption
<1>2. PhaseOf(x) \in Walk!Phases
  BY DEF PhaseOf, IsTerminal, Terminals, Walk!Terminals, Walk!Phases
<1>3. x.contract \in Contracts /\ x.step \in Steps
  BY DEF RunState
<1>4. Pos(x) \in Walk!Position
  BY <1>2, <1>3 DEF Pos, Place, Walk!Position
<1>5. PositionOf(x) = Pos(x)
  BY <1>1 DEF PositionOf, Pos, Place
<1> QED BY <1>1, <1>4, <1>5, PositionAbsenceAssumption

LEMMA FlowTypeOf ==
  ASSUME NEW f, NEW s \in Steps
  PROVE  FlowTypes(f)[s] = IF HasStep(f, s) THEN {f.steps[s].type} ELSE {}
BY DEF FlowTypes

\* Putting a run where it leads is a step of the walk.
LEMMA LedWalks ==
  ASSUME NEW r \in RunIds, NEW y \in RunState, Leads(runs[r], y),
         runs[r] \in RunState \cup {None}, runs[r] # None => Follows(runs[r]),
         runs'[r] = y, \A o \in RunIds \ {r} : runs'[o] = runs[o]
  PROVE  Walk!WalkNext
<1> DEFINE x == runs[r]
<1>1. ASSUME NEW p, Pos(y) = p PROVE Walk!GoTo(r, p)
  <2>1. PositionOf(runs'[r]) = p
    BY <1>1, PositionIs
  <2> QED BY <2>1 DEF Walk!GoTo
<1>2. CASE Seeded[y.contract] # None /\ y.step = Seeded[y.contract].entry /\ PhaseOf(y) = "ready"
  <2>1. y.contract \in Contracts
    BY DEF RunState
  <2>2. Walk!GoTo(r, [contract |-> y.contract, step |-> Seeded[y.contract].entry, phase |-> "ready"])
    BY <1>1, <1>2 DEF Pos, Place
  <2>3. Walk!Begin(r, y.contract)
    BY <1>2, <2>2 DEF Walk!Begin
  <2> QED BY <2>1, <2>3 DEF Walk!WalkNext
<1>3. ASSUME NEW phase, x # None, PhaseOf(x) = phase PROVE Walk!Walking(r, phase)
  <2>1. PositionOf(x) # None /\ PositionOf(x).phase = phase
    BY <1>3, PositionIs DEF Pos, Place
  <2> QED BY <2>1 DEF Walk!Walking
<1>4. CASE x # None /\ PhaseOf(x) = "review" /\ Pos(y) = Place(x, "approved")
  <2>1. Walk!GoTo(r, [Pos(x) EXCEPT !.phase = "approved"])
    BY <1>1, <1>4 DEF Pos, Place
  <2>2. Walk!ApproveGate(r)
    BY <1>3, <1>4, <2>1, PositionIs DEF Walk!ApproveGate
  <2> QED BY <2>2 DEF Walk!WalkNext
<1>5. ASSUME x # None, NEW outcome \in Outcomes, MayLeave(x, outcome), Pos(y) = Moved(x, outcome)
      PROVE  Walk!WalkNext
  <2>1. x \in RunState /\ Follows(x) /\ PositionOf(x) = Pos(x)
    BY <1>5, PositionIs
  <2>2. Walk!GoTo(r, Walk!Move(PositionOf(x), outcome))
    BY <1>1, <1>5, <2>1, MovedIsMove
  <2>3. CASE outcome = "approve" /\ PhaseOf(x) = "approved"
    <3>1. Walk!PerformGated(r)
      BY <1>3, <1>5, <2>2, <2>3 DEF Walk!PerformGated
    <3> QED BY <3>1 DEF Walk!WalkNext
  <2>4. CASE outcome = "reject" /\ PhaseOf(x) = "review"
    <3>1. Walk!RejectGate(r)
      BY <1>3, <1>5, <2>2, <2>4 DEF Walk!RejectGate
    <3> QED BY <3>1 DEF Walk!WalkNext
  <2>5. CASE /\ outcome = "default" /\ PhaseOf(x) = "ready"
             /\ TypeAt(x) \in {{"connector_action"}, {"deterministic_action"}}
    <3>1. x.step \in Steps
      BY <2>1 DEF RunState
    <3>2. TypeAt(x) = IF HasStep(Seeded[x.contract], x.step)
                      THEN {Seeded[x.contract].steps[x.step].type} ELSE {}
      BY <2>1, <3>1, FlowTypeOf DEF TypeAt, Follows
    <3>3. Seeded[x.contract].steps[x.step].type \in {"connector_action", "deterministic_action"}
      BY <2>5, <3>2
    <3>4. Walk!StepAt(PositionOf(x)).type \in {"connector_action", "deterministic_action"}
      BY <2>1, <3>3 DEF Walk!StepAt, Pos, Place
    <3>5. Walk!Perform(r)
      BY <1>3, <1>5, <2>2, <2>5, <3>4 DEF Walk!Perform
    <3> QED BY <3>5 DEF Walk!WalkNext
  <2> QED BY <1>5, <2>3, <2>4, <2>5 DEF MayLeave
<1> QED BY <1>2, <1>4, <1>5 DEF Leads

\* Every step of the corridor is one of the walk, or the walk does not see it.
LEMMA StepWalks ==
  ASSUME IInv, Apart, ~Restart, [Next]_vars, \A r \in RunIds : WalkOK(r)
  PROVE  Walk!WalkNext \/ UNCHANGED [r \in RunIds |-> PositionOf(runs[r])]
<1> DEFINE Unseen == UNCHANGED [r \in RunIds |-> PositionOf(runs[r])]
<1>1. ASSUME UNCHANGED runs PROVE Unseen
  BY <1>1
<1>2. ASSUME NEW r \in RunIds, GetNext(r) PROVE Unseen
  <2> DEFINE x == [runs[r] EXCEPT !.adm = Admission(runs[r], registry[runs[r].contract])]
  <2>1. /\ runs[r] # None /\ runs[r] \in RunState /\ runs' = [runs EXCEPT ![r] = x]
        /\ runs \in [RunIds -> RunState \cup {None}]
    BY <1>2, InMap DEF GetNext, IInv, TypeOK
  <2>2. x \in RunState /\ Alike(runs[r], x)
    BY <2>1, AdmissionType DEF RunState, Alike, Rest, Types
  <2>3. PositionOf(x) = PositionOf(runs[r])
    BY <2>1, <2>2, PositionIs, PosAlike
  <2> HIDE DEF x
  <2>4. \A o \in RunIds : PositionOf(runs'[o]) = PositionOf(runs[o])
    BY <2>1, <2>3
  <2> QED BY <2>4
<1>3. ASSUME NEW w \in Workers, Insert(w) PROVE Walk!WalkNext
  <2> DEFINE r == req[w].run
             y == req[w].st
  <2>1. /\ req[w] \in Request /\ req[w] # None /\ req[w].at = "insert" /\ r \in RunIds
        /\ runs \in [RunIds -> RunState \cup {None}]
    BY <1>3, InFlight DEF Insert, Idle, IInv, TypeOK
  <2>2. runs' = [runs EXCEPT ![r] = y]
    BY <1>3 DEF Insert
  <2>3. y \in RunState
    BY <2>1 DEF Request
  <2>4. On(w, r)
    BY <2>1 DEF On, Idle
  <2>5. Actor(r) = req[w] /\ WalkOK(r)
    BY <2>1, <2>4, ActorIs
  <2>6. Leads(runs[r], y) /\ (runs[r] # None => Follows(runs[r]))
    BY <2>1, <2>5 DEF WalkOK, RequestWalks, FollowOK
  <2> HIDE DEF r, y
  <2> QED BY <2>1, <2>2, <2>3, <2>6, LedWalks DEF r
<1>4. ASSUME NEW w \in Workers, Arrive(w) PROVE UNCHANGED runs
  BY <1>4 DEF Arrive, Start, ExecuteRead, ResolveRead, EvidenceRead
<1>5. ASSUME NEW w \in Workers, Handle(w), ~Insert(w) PROVE UNCHANGED runs
  BY <1>5 DEF Handle, PersistRead, PersistPut, PersistFail, EvidenceAnswer, ExecuteDeny,
         ExecuteAdmit, ConnectorOk, ConnectorErr, ExecuteRecord, ExecuteNoTransition,
         ExecuteLostTarget, ExecuteTrace, Approve, Reject, RejectNoTransition, RecordReject
<1>6. ASSUME NEW c \in Contracts, NEW f \in Submissions, Register(c, f) PROVE UNCHANGED runs
  BY <1>6 DEF Register
<1> QED BY <1>1, <1>2, <1>3, <1>4, <1>5, <1>6 DEF Next, vars

\* The corridor implements ContractWalk: while requests on one run do not
\* overlap, no contract is replaced and the process does not restart, every
\* change of what a client sees of a run is the one step its flow allows; if
\* no rejection leads to a gate.
THEOREM StateAlwaysAdvances ==
  ASSUME Restarts = FALSE, RejectionsPassGates
  PROVE  Spec /\ []Apart /\ []FlowsFixed => StateAdvancesByFlow
<1> DEFINE Inv == \A r \in RunIds : WalkOK(r)
<1>1. Init => Inv
  BY ActorIs DEF Init, On, Idle, WalkOK, FollowOK
<1>2. ~Restart
  BY DEF Restart
<1>3. IInv /\ IInv' /\ Inv /\ Apart /\ Apart' /\ FlowsFixed /\ [Next]_vars => Inv'
  BY <1>2, WalkStep
<1>4. Init => Walk!WalkInit
  BY DEF Init, Walk!WalkInit, PositionOf
<1>5. IInv /\ Inv /\ Apart /\ [Next]_vars
        => [Walk!WalkNext]_[r \in RunIds |-> PositionOf(runs[r])]
  BY <1>2, StepWalks
<1> QED BY <1>1, <1>3, <1>4, <1>5, IInvAlways, PTL DEF Spec, StateAdvancesByFlow, Walk!WalkSpec

=============================================================================
