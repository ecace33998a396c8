------------------------------ MODULE WorkerRun ------------------------------
(***************************************************************************)
(* The contract endpoints of the Cloudflare worker (src/worker_adapter.rs):*)
(* registration, run and decision.  Every isolate keeps contracts and      *)
(* continuations in a memory of its own, which requests ask first and      *)
(* which goes when the isolate is evicted; behind them all is one          *)
(* key-value namespace, where evidence expires and continuations do not.   *)
(* Every step is what a handler does up to its next await.  A write that   *)
(* reports an error may have happened.                                     *)
(***************************************************************************)
EXTENDS LegacyWalk, KVNamespace, FiniteSets

CONSTANTS
  Isolates,
  Workers,          \* requests that may be in flight at once, in any isolate
  RunIds, Contracts,
  IndexId,          \* "index", the contract id whose entry has the key of the contract index
  Seed,             \* contract id -> flow an earlier deployment has left in the namespace
  Candidates,       \* flows clients register
  OutcomeMaps,      \* input_payload.outcomes of clients
  MaxRegistrations, \* registrations that are admitted, of all contracts
  MaxStarts,        \* run requests per run id
  Retention,        \* whether MOVA_RUN_TTL_SECONDS is set, so that snapshots expire
  MaxDecisions      \* no new decision request on a run with so many distinct decisions on record

ASSUME WorkerBounds == /\ MaxRegistrations \in Nat /\ MaxStarts \in Nat /\ MaxDecisions \in Nat
                       /\ Candidates \cup {Seed[c] : c \in DOMAIN Seed} \subseteq LegacyFlow
                       /\ Retention \in BOOLEAN
                       /\ IndexId \in Contracts /\ DOMAIN Seed \subseteq Contracts \ {IndexId}
                       /\ \A c \in DOMAIN Seed : ValidLegacyFlow(Seed[c])
                       /\ OutcomeMaps \subseteq [Steps -> Outcomes]

VARIABLES
  memory,      \* isolate -> its admitted_contracts and contract_runs
  kv,          \* the namespace: contracts and their index, run states, snapshots
  request,     \* worker -> what its handler holds
  registered,  \* history: how many registrations were admitted
  published,   \* history: contract id -> number of the last one answered 201, or 0
  answered,    \* history: isolate -> the same of those it has answered since it started
  contested,   \* history: the contracts two registrations of which were in flight at once
  started,     \* history: run id -> how many starts were requested
  crossed,     \* history: the runs two starts of which were in flight at once
  filed,       \* history: run id -> the evidence that was stored, expired or not
  decisions,   \* history: run id -> the decisions that read a continuation
  early,       \* history: run id -> the starts that were decided before they were answered
  promised,    \* history: run id -> the start last answered waiting_human, or 0
  accepted     \* history: run id -> the starts a decision on which an isolate answered 200

code     == <<memory, kv, request>>
registry == <<registered, published, answered, contested>>
course   == <<started, crossed, filed, decisions, early, promised, accepted>>
vars     == <<code, registry, course>>

Decisions == {"approve", "reject"}

\* An admitted contract; `no` numbers the registration and is history.
Admitted == [flow : LegacyFlow, no : 0 .. MaxRegistrations]

\* The contract index: a list of ids, where an admitted contract is an object.
Index == [ids : SUBSET Contracts]

\* ContractRunState; `no` numbers the start it belongs to, `flow` is what that
\* start walked, and both are history.
RunState == [contract : Contracts, step : Steps, outcomes : OutcomeMaps, no : 1 .. MaxStarts,
             flow : LegacyFlow]

\* A stored run: the walk and what it was made of.
Snapshot(q, f, w) ==
  [status |-> IF q.decision = None /\ w.result = "waiting" THEN "blocked" ELSE "completed",
   no |-> q.no, decision |-> q.decision, flow |-> f, outcomes |-> q.outcomes, walk |-> w]

SnapshotRecord == [status : {"blocked", "completed"}, no : 1 .. MaxStarts,
                   decision : Decisions \cup {None}, flow : LegacyFlow,
                   outcomes : OutcomeMaps, walk : Walk]

\* What is missing is None, never a decision, a contract, a continuation, a snapshot or an index.
ASSUME NoneAssumption ==
  None \notin Decisions \cup Admitted \cup Index \cup RunState \cup SnapshotRecord

Nothing == [contracts |-> [c \in Contracts |-> None], runs |-> [r \in RunIds |-> None]]

Idle == [at |-> "idle"]

Init == /\ memory = [i \in Isolates |-> Nothing]
        /\ kv = [contracts |-> [c \in Contracts |->
                                  Cell(IF c \in DOMAIN Seed THEN [flow |-> Seed[c], no |-> 0]
                                       ELSE IF c = IndexId THEN [ids |-> DOMAIN Seed]
                                       ELSE None)],
                 runs |-> [r \in RunIds |-> Cell(None)],
                 snapshots |-> [r \in RunIds |-> Cell(None)]]
        /\ request = [k \in Workers |-> Idle]
        /\ registered = 0
        /\ published = [c \in Contracts |-> 0]
        /\ answered = [i \in Isolates |-> [c \in Contracts |-> 0]]
        /\ contested = {}
        /\ started = [r \in RunIds |-> 0]
        /\ crossed = {}
        /\ filed = [r \in RunIds |-> {}]
        /\ decisions = [r \in RunIds |-> {}]
        /\ early = [r \in RunIds |-> {}]
        /\ promised = [r \in RunIds |-> 0]
        /\ accepted = [r \in RunIds |-> {}]

Set(k, q) == request' = [request EXCEPT ![k] = q]

Goto(k, point) == Set(k, [request[k] EXCEPT !.at = point])

\* The handler answers, an error included, and is done.
Finish(k) == Set(k, Idle)

-----------------------------------------------------------------------------
(* POST /contracts/register: the map of the isolate first, then the        *)
(* contract's own entry, then the index, read and written back.  Nothing   *)
(* keeps a client from the id whose entry is the index.                    *)

RegistrationUnderway(k, c) ==
  /\ request[k].at \in {"put contract", "get index", "put index"} /\ request[k].contract = c

Contested(c) == IF \E k \in Workers : RegistrationUnderway(k, c) THEN contested \cup {c}
                ELSE contested

\* Mutant of Register: a contract the isolate knows is not replaced.
RegisterKeeps(k, i, c, f) ==
  /\ request[k] = Idle /\ registered < MaxRegistrations
  /\ ValidLegacyFlow(f)
  /\ registered' = registered + 1 /\ contested' = Contested(c)
  /\ LET a == [flow |-> f, no |-> registered + 1] IN
     /\ memory' = [memory EXCEPT ![i].contracts[c] = IF @ = None THEN a ELSE @]
     /\ Set(k, [at |-> "put contract", on |-> i, contract |-> c, admitted |-> a, ids |-> {}])
  /\ UNCHANGED <<kv, published, answered, course>>

Register(k, i, c, f) ==
  /\ request[k] = Idle /\ registered < MaxRegistrations
  /\ ValidLegacyFlow(f)
  /\ registered' = registered + 1 /\ contested' = Contested(c)
  /\ LET a == [flow |-> f, no |-> registered + 1] IN
     /\ memory' = [memory EXCEPT ![i].contracts[c] = a]
     /\ Set(k, [at |-> "put contract", on |-> i, contract |-> c, admitted |-> a, ids |-> {}])
  /\ UNCHANGED <<kv, published, answered, course>>

Upserted(k) == kv' = [kv EXCEPT !.contracts[request[k].contract] = Written(@, request[k].admitted)]

\* Mutant of PutContract: a failure does not end the registration.
PutContractPassesOver(k) ==
  /\ request[k].at = "put contract"
  /\ Upserted(k) \/ UNCHANGED kv
  /\ Goto(k, "get index")
  /\ UNCHANGED <<memory, registry, course>>

PutContract(k) ==
  /\ request[k].at = "put contract"
  /\ \/ Upserted(k) /\ Goto(k, "get index")
     \/ (Upserted(k) \/ UNCHANGED kv) /\ Finish(k)
  /\ UNCHANGED <<memory, registry, course>>

\* Only a list of ids can be read as the index, not a contract.
GetIndex(k) ==
  /\ request[k].at = "get index"
  /\ \/ \E v \in kv.contracts[IndexId].visible :
          /\ v \in Index
          /\ Set(k, [request[k] EXCEPT !.at = "put index",
                                       !.ids = v.ids \cup {request[k].contract}])
     \/ Finish(k)
  /\ UNCHANGED <<memory, kv, registry, course>>

Indexed(k) == kv' = [kv EXCEPT !.contracts[IndexId] = Written(@, [ids |-> request[k].ids])]

\* The client is told 201, or 503.
PutIndex(k) ==
  /\ request[k].at = "put index"
  /\ LET q == request[k] IN
     \/ /\ Indexed(k)
        /\ published' = [published EXCEPT ![q.contract] = q.admitted.no]
        /\ answered' = [answered EXCEPT ![q.on][q.contract] = q.admitted.no]
     \/ (Indexed(k) \/ UNCHANGED kv) /\ UNCHANGED <<published, answered>>
  /\ Finish(k)
  /\ UNCHANGED <<memory, registered, contested, course>>

-----------------------------------------------------------------------------
(* The walk both handlers make.                                            *)

\* What the handler goes on with: the snapshot to store, or an error answer.
Walked(q, f) ==
  LET w == ExecuteContractFlow(f, IF q.decision = None THEN f.entry ELSE q.step,
                               q.outcomes, q.decision)
  IN IF w.result = "error" THEN Idle
     ELSE [at |-> "store", on |-> q.on, run |-> q.run, contract |-> q.contract,
           snapshot |-> Snapshot(q, f, w)]

\* A contract in hand: the run handler still awaits its body, a decision walks.
WithContract(q, a) ==
  IF q.decision = None THEN [q EXCEPT !.at = "body", !.admitted = a] ELSE Walked(q, a.flow)

\* The contract of the isolate is preferred; the namespace is asked otherwise.
Resolved(i, q) == IF memory[i].contracts[q.contract] # None
                  THEN WithContract(q, memory[i].contracts[q.contract])
                  ELSE [q EXCEPT !.at = "get contract"]

\* kv_get_contract; what is absent, no contract or cannot be read is answered.
GetContract(k) ==
  /\ request[k].at = "get contract"
  /\ \/ \E a \in kv.contracts[request[k].contract].visible :
          a \in Admitted /\ Set(k, WithContract(request[k], a))
     \/ Finish(k)
  /\ UNCHANGED <<memory, kv, registry, course>>

-----------------------------------------------------------------------------
(* POST /contracts/{id}/run *)

\* A start of the run that has not been answered.
StartUnderway(k, r) ==
  LET q == request[k] IN
  \/ q.at \in {"get contract", "body"} /\ q.run = r /\ q.decision = None
  \/ q.at \in {"store", "put run"} /\ q.run = r /\ q.snapshot.decision = None

Run(k, i, r, c, outcomes) ==
  /\ request[k] = Idle /\ started[r] < MaxStarts
  /\ started' = [started EXCEPT ![r] = @ + 1]
  /\ crossed' = IF \E j \in Workers : StartUnderway(j, r) THEN crossed \cup {r} ELSE crossed
  /\ Set(k, Resolved(i, [at |-> "run", on |-> i, run |-> r, contract |-> c, outcomes |-> outcomes,
                         decision |-> None, step |-> None, no |-> started[r] + 1,
                         admitted |-> None]))
  /\ UNCHANGED <<memory, kv, registry, filed, decisions, early, promised, accepted>>

\* Mutant of Body: the isolate may decide the run before its snapshot is stored.
BodyInsertsFirst(k) ==
  /\ request[k].at = "body"
  /\ LET q == Walked(request[k], request[k].admitted.flow) IN
     /\ Set(k, q)
     /\ IF q = Idle THEN UNCHANGED memory
        ELSE IF q.snapshot.status # "blocked" THEN UNCHANGED memory
        ELSE memory' = [memory EXCEPT ![q.on].runs[q.run] =
                          [contract |-> q.contract, step |-> q.snapshot.walk.at,
                           outcomes |-> q.snapshot.outcomes, no |-> q.snapshot.no,
                           flow |-> q.snapshot.flow]]
  /\ UNCHANGED <<kv, registry, course>>

\* The body has arrived and the flow is walked.
Body(k) ==
  /\ request[k].at = "body"
  /\ Set(k, Walked(request[k], request[k].admitted.flow))
  /\ UNCHANGED <<memory, kv, registry, course>>

\* What a snapshot is evidence of: a start, or a decision on it.
EvidenceOf(s) == [no |-> s.no, decision |-> s.decision]

Stored(k) ==
  LET q == request[k] IN
  /\ kv' = [kv EXCEPT !.snapshots[q.run] = Written(@, q.snapshot)]
  /\ filed' = [filed EXCEPT ![q.run] = @ \cup {EvidenceOf(q.snapshot)}]

Waiting(k) == [contract |-> request[k].contract, step |-> request[k].snapshot.walk.at,
               outcomes |-> request[k].snapshot.outcomes, no |-> request[k].snapshot.no,
               flow |-> request[k].snapshot.flow]

\* What follows the snapshot before the next await: a run that waits is left in
\* the isolate's map, a decided one is removed from it.
AfterStore(k) ==
  LET i == request[k].on  r == request[k].run  s == request[k].snapshot
  IN CASE s.status = "blocked" -> /\ memory' = [memory EXCEPT ![i].runs[r] = Waiting(k)]
                                  /\ Goto(k, "put run")
       [] s.decision # None    -> /\ memory' = [memory EXCEPT ![i].runs[r] = None]
                                  /\ Goto(k, "delete run")
       [] OTHER                -> Finish(k) /\ UNCHANGED memory

\* Mutant of Store: an unavailable store is passed over.
StorePassesOver(k) ==
  /\ request[k].at = "store"
  /\ Stored(k) \/ UNCHANGED <<kv, filed>>
  /\ AfterStore(k)
  /\ UNCHANGED <<registry, started, crossed, decisions, early, promised, accepted>>

\* put_snapshot
Store(k) ==
  /\ request[k].at = "store"
  /\ \/ Stored(k) /\ AfterStore(k)
     \/ (Stored(k) \/ UNCHANGED <<kv, filed>>) /\ Finish(k) /\ UNCHANGED memory
  /\ UNCHANGED <<registry, started, crossed, decisions, early, promised, accepted>>

RunLeft(k) == kv' = [kv EXCEPT !.runs[request[k].run] = Written(@, Waiting(k))]

\* Mutant of PutRun: the client is told waiting_human although the put failed.
PutRunUnchecked(k) ==
  /\ request[k].at = "put run"
  /\ RunLeft(k) \/ UNCHANGED kv
  /\ promised' = [promised EXCEPT ![request[k].run] = request[k].snapshot.no]
  /\ Finish(k)
  /\ UNCHANGED <<memory, registry, started, crossed, filed, decisions, early, accepted>>

\* kv_put_contract_run_state; the client is told waiting_human, or 503.
PutRun(k) ==
  /\ request[k].at = "put run"
  /\ \/ /\ RunLeft(k)
        /\ promised' = [promised EXCEPT ![request[k].run] = request[k].snapshot.no]
     \/ (RunLeft(k) \/ UNCHANGED kv) /\ UNCHANGED promised
  /\ Finish(k)
  /\ UNCHANGED <<memory, registry, started, crossed, filed, decisions, early, accepted>>

-----------------------------------------------------------------------------
(* POST /contracts/runs/{run_id}/decision *)

\* The handler of that start has yet to answer its client.
Unanswered(r, no) == \E k \in Workers : /\ request[k].at = "put run" /\ request[k].run = r
                                        /\ request[k].snapshot.no = no

\* A continuation in hand.  The decision is on record from here on.
Continue(k, i, r, d, held) ==
  /\ decisions' = [decisions EXCEPT ![r] = @ \cup {[no |-> held.no, decision |-> d]}]
  /\ early' = [early EXCEPT ![r] = IF Unanswered(r, held.no) THEN @ \cup {held.no} ELSE @]
  /\ Set(k, Resolved(i, [at |-> "continue", on |-> i, run |-> r, contract |-> held.contract,
                         outcomes |-> held.outcomes, decision |-> d, step |-> held.step,
                         no |-> held.no, admitted |-> None]))

\* The continuation is cloned from the isolate's map or read from the namespace.
Decide(k, i, r, d) ==
  /\ request[k] = Idle /\ Cardinality(decisions[r]) < MaxDecisions
  /\ IF memory[i].runs[r] # None THEN Continue(k, i, r, d, memory[i].runs[r])
     ELSE /\ Set(k, [at |-> "get run", on |-> i, run |-> r, decision |-> d])
          /\ UNCHANGED <<decisions, early>>
  /\ UNCHANGED <<memory, kv, registry, started, crossed, filed, promised, accepted>>

\* kv_get_contract_run_state; an absent continuation and a failure are answered.
GetRun(k) ==
  /\ request[k].at = "get run"
  /\ \/ \E held \in kv.runs[request[k].run].visible \ {None} :
          Continue(k, request[k].on, request[k].run, request[k].decision, held)
     \/ Finish(k) /\ UNCHANGED <<decisions, early>>
  /\ UNCHANGED <<memory, kv, registry, started, crossed, filed, promised, accepted>>

\* Which start's decision is answered, and by which isolate.
Answer(k) == [no |-> request[k].snapshot.no, on |-> request[k].on]

RunDeleted(k) == kv' = [kv EXCEPT !.runs[request[k].run] = Written(@, None)]

\* Mutant of DeleteRun: a failing delete is not reported.
DeleteRunUnchecked(k) ==
  /\ request[k].at = "delete run"
  /\ RunDeleted(k) \/ UNCHANGED kv
  /\ accepted' = [accepted EXCEPT ![request[k].run] = @ \cup {Answer(k)}]
  /\ promised' = [promised EXCEPT ![request[k].run] = 0]
  /\ Finish(k)
  /\ UNCHANGED <<memory, registry, started, crossed, filed, decisions, early>>

\* kv_delete_contract_run_state; the client is told the status, or 503.  Either
\* way the run's evidence is that of the decision.
DeleteRun(k) ==
  /\ request[k].at = "delete run"
  /\ \/ /\ RunDeleted(k)
        /\ accepted' = [accepted EXCEPT ![request[k].run] = @ \cup {Answer(k)}]
     \/ (RunDeleted(k) \/ UNCHANGED kv) /\ UNCHANGED accepted
  /\ promised' = [promised EXCEPT ![request[k].run] = 0]
  /\ Finish(k)
  /\ UNCHANGED <<memory, registry, started, crossed, filed, decisions, early>>

-----------------------------------------------------------------------------
(* The platform *)

\* An isolate goes, and with it its memory and the requests it serves.
Evict(i) ==
  /\ memory[i] # Nothing \/ \E k \in Workers : request[k] # Idle /\ request[k].on = i
  /\ memory' = [memory EXCEPT ![i] = Nothing]
  /\ request' = [k \in Workers |-> IF request[k] # Idle /\ request[k].on = i THEN Idle
                                   ELSE request[k]]
  /\ answered' = [answered EXCEPT ![i] = [c \in Contracts |-> 0]]
  /\ UNCHANGED <<kv, registered, published, contested, course>>

\* Every place of the namespace has seen the last writes of a run, of a contract.
SettleRun(r) == /\ kv' = [kv EXCEPT !.runs[r] = Settled(@), !.snapshots[r] = Settled(@)]
                /\ UNCHANGED <<memory, request, registry, course>>

SettleContract(c) == /\ kv' = [kv EXCEPT !.contracts[c] = Settled(@)]
                     /\ UNCHANGED <<memory, request, registry, course>>

\* Snapshots are put with a time to live, contracts and continuations are not.
Expire(r) == /\ Retention /\ kv.snapshots[r].latest # None
             /\ kv' = [kv EXCEPT !.snapshots[r] = Written(@, None)]
             /\ UNCHANGED <<memory, request, registry, course>>

Handle(k) == \/ PutContract(k) \/ GetIndex(k) \/ PutIndex(k)
             \/ GetContract(k) \/ Body(k) \/ Store(k) \/ PutRun(k) \/ GetRun(k) \/ DeleteRun(k)

Next == \/ \E k \in Workers, i \in Isolates :
             \/ \E c \in Contracts, f \in Candidates : Register(k, i, c, f)
             \/ \E r \in RunIds, c \in Contracts, o \in OutcomeMaps : Run(k, i, r, c, o)
             \/ \E r \in RunIds, d \in Decisions : Decide(k, i, r, d)
        \/ \E k \in Workers : Handle(k)
        \/ \E i \in Isolates : Evict(i)
        \/ \E r \in RunIds : SettleRun(r) \/ Expire(r)
        \/ \E c \in Contracts : SettleContract(c)

Spec == Init /\ [][Next]_vars

-----------------------------------------------------------------------------
(* Properties.  All of them are stated with any overlap of requests, in any *)
(* number of isolates, over a namespace that lags.                         *)

Continuations(r) == ({memory[i].runs[r] : i \in Isolates} \cup kv.runs[r].visible
                       \cup {kv.runs[r].latest}) \ {None}

\* The run waits at a gate of the flow that was walked.
AtGate(held) == HasStep(held.flow, held.step) /\ IsGate(held.flow, held.step)

\* A walk in hand or on record stands on a step of the flow it was made on.
SnapshotTypeOK(s) == /\ s.status \in {"blocked", "completed"}
                     /\ s.no \in 1 .. MaxStarts
                     /\ s.decision \in Decisions \cup {None}
                     /\ s.walk.at \in Steps /\ HasStep(s.flow, s.walk.at)
                     /\ s.walk.result \in {"waiting", "ended"}

\* Types of the state; in particular a continuation always names a step, and the
\* cell of the index holds a list or, once its id is registered, a contract.
TypeOK ==
  /\ \A i \in Isolates, c \in Contracts : memory[i].contracts[c] \in Admitted \cup {None}
  /\ \A r \in RunIds : /\ Continuations(r) \subseteq RunState
                       /\ \A s \in kv.snapshots[r].visible \ {None} : SnapshotTypeOK(s)
  /\ \A c \in Contracts : kv.contracts[c].visible \subseteq
                            Admitted \cup IF c = IndexId THEN Index ELSE {None}
  /\ \A k \in Workers : /\ request[k] # Idle => request[k].on \in Isolates
                        /\ request[k].at \in {"store", "put run", "delete run"} =>
                             SnapshotTypeOK(request[k].snapshot)

\* Whatever isolate, cache or lagging place still holds a continuation, the
\* evidence of the very start it belongs to was stored before: nobody decides a
\* run that was never on record.  Its time to live may have ended since, and a
\* continuation has none.
ContinuationOnRecord ==
  \A r \in RunIds : \A held \in Continuations(r) : [no |-> held.no, decision |-> None] \in filed[r]

\* The evidence of a start never follows that of a decision on it, although the
\* two handlers may run in different isolates: not in its place, and not after
\* its time to live has ended either.
DecisionEvidenceStays ==
  [][\A r \in RunIds :
       LET old == kv.snapshots[r].latest  new == kv'.snapshots[r].latest
       IN new # old /\ new # None =>
            (new.decision = None => \A e \in filed[r] : e.no = new.no => e.decision = None)]_vars

\* No index that is still read anywhere, and may be written back, names a
\* contract whose own entry was not written, while registrations overlap, writes
\* fail and the index itself is overwritten by the contract of its id.
IndexedContractsStored ==
  \A v \in kv.contracts[IndexId].visible : v \in Index =>
    \A c \in v.ids \ {IndexId} : kv.contracts[c].latest # None

\* A gate holds until it is decided: evidence of a walk past a gate is that of a
\* decision some client sent for this very start of the run.
GatePassedByDecision ==
  \A r \in RunIds : \A s \in kv.snapshots[r].visible \ {None} :
    LET t == s.walk.trace IN
    (\E i \in DOMAIN t : IsGate(s.flow, t[i]) /\ (i < Len(t) \/ s.walk.terminal # None)) =>
      EvidenceOf(s) \in decisions[r]

\* A client that was told waiting_human does not lose the run to an eviction, a
\* failed write or a decision that failed before its delete: its continuation
\* stays stored, or that of a later start (of any start, if starts overlapped),
\* at a gate of the flow that start walked.  A decision finds that gate as long
\* as the contract in force has the step; if it was registered anew without the
\* step, every decision is answered 400.
PromisedRunKept ==
  \A r \in RunIds : promised[r] # 0 =>
    LET held == kv.runs[r].latest IN
    /\ held # None /\ AtGate(held)
    /\ r \notin crossed => held.no >= promised[r]

\* A registration that was answered 201 stays in its contract's own entry until
\* a later one of that contract replaces it; of registrations that overlapped,
\* one stays.  The id of the index is the exception: its entry is overwritten.
PublishedContractStored ==
  \A c \in Contracts \ {IndexId} : published[c] # 0 =>
    LET a == kv.contracts[c].latest IN
    /\ a # None
    /\ c \notin contested => a.no >= published[c]

\* A start that finds the contract in its isolate walks no version older than the
\* last one that isolate answered 201, however registrations overlapped.  Another
\* isolate may well walk an older one.
NewestVersionWalked ==
  [][\A k \in Workers :
       LET q == request'[k] IN
       request[k] = Idle /\ q.at = "body" => q.admitted.no >= answered[q.on][q.contract]]_vars

\* A decision on a start that had been answered is final where it was answered
\* 200: neither that isolate nor the namespace has a continuation of the start
\* left, although decisions overlap.  Another isolate, or a lagging place, may.
DecidedRunNotWaiting ==
  \A r \in RunIds : \A a \in accepted[r] : a.no \notin early[r] =>
    \A run \in {memory[a.on].runs[r], kv.runs[r].latest} \ {None} : run.no # a.no

=============================================================================
