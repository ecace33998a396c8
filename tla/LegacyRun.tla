------------------------------ MODULE LegacyRun ------------------------------
(***************************************************************************)
(* The compatibility endpoints of the server, POST /contracts/{id}/run and *)
(* POST /contracts/runs/{run_id}/decision (src/http/mod.rs).  A run that   *)
(* meets a human gate leaves a continuation in legacy_contract_runs; a     *)
(* decision takes it out and walks the rest of the flow.  Every step of a  *)
(* handler below is one critical section or one await of the code.         *)
(***************************************************************************)
EXTENDS LegacyWalk, FiniteSets

CONSTANTS
  Workers,       \* requests that may be in flight at once
  RunIds, Contracts,
  Seed,          \* contract id -> flow, registered before the first request
  Candidates,    \* flows clients try to register
  OutcomeMaps,   \* input_payload.outcomes of clients: step -> outcome, "default" if unset
  FileContract,  \* the contract whose runs also process local report files, or None
  EscalationStep,\* the step a file report that needs review waits at, or None
  MaxStarts,     \* runs begun per run id
  MaxRestarts    \* restarts of the process

ASSUME BoundsAssumption == /\ MaxStarts \in Nat /\ MaxRestarts \in Nat
                           /\ OutcomeMaps \subseteq [Steps -> Outcomes]
                           /\ EscalationStep \in Steps \cup {None}
                           /\ Candidates \subseteq LegacyFlow
                           /\ \A c \in DOMAIN Seed : /\ Seed[c] \in LegacyFlow
                                                     /\ ValidLegacyFlow(Seed[c])

VARIABLES
  contracts,     \* admitted_contracts: contract id -> flow or None
  pending,       \* legacy_contract_runs: run id -> continuation or None
  snapshots,     \* run_store, which outlives the process: run id -> snapshot or None
  request,       \* worker -> what its handler holds
  started,       \* run id -> how many starts were accepted for execution
  decisions,     \* run id -> the decisions that took a continuation
  restarts

code == <<contracts, pending, snapshots, request>>
vars == <<code, started, decisions, restarts>>

Decisions == {"approve", "reject"}

\* The continuation; `no` numbers the start it belongs to and is history.
Continuation == [contract : Contracts, step : Steps, outcomes : OutcomeMaps, no : 1 .. MaxStarts]

\* A persisted run: its status, the walk told in its observation, and of whom.
Snapshot(no, decision, f, outcomes, w) ==
  [status |-> IF decision = None /\ w.result = "waiting" THEN "blocked" ELSE "completed",
   told |-> StatusOf(w), no |-> no, decision |-> decision,
   flow |-> f, outcomes |-> outcomes, walk |-> w]

SnapshotRecord == [status : {"blocked", "completed"}, told : Terminals \cup {"waiting_human"},
                   no : 1 .. MaxStarts, decision : Decisions \cup {None},
                   flow : LegacyFlow, outcomes : OutcomeMaps, walk : Walk]

\* What is missing is None, never a decision, a continuation or a snapshot.
ASSUME NoneAssumption == None \notin Decisions \cup Continuation \cup SnapshotRecord

Idle == [at |-> "idle"]

Set(r, req) == request' = [request EXCEPT ![r] = req]

Finish(r) == Set(r, Idle)

Init == /\ contracts = [c \in Contracts |-> IF c \in DOMAIN Seed THEN Seed[c] ELSE None]
        /\ pending = [r \in RunIds |-> None]
        /\ snapshots = [r \in RunIds |-> None]
        /\ request = [k \in Workers |-> Idle]
        /\ started = [r \in RunIds |-> 0]
        /\ decisions = [r \in RunIds |-> << >>]
        /\ restarts = 0

\* POST /contracts/register, as far as these endpoints see it.
Register(c, f) == /\ ValidLegacyFlow(f) /\ contracts[c] # f
                  /\ contracts' = [contracts EXCEPT ![c] = f]
                  /\ UNCHANGED <<pending, snapshots, request, started, decisions, restarts>>

-----------------------------------------------------------------------------
(* The run handler: clone the registered flow and walk it, process the     *)
(* report files, store a snapshot, and only then leave the continuation.   *)

\* What processing the report files of a contract may result in; an error is
\* answered and leaves no trace.
FileResults(c) == IF c = FileContract THEN {"clear", "review"} ELSE {"clear"}

\* Mutant of AfterFiles: the escalation step is not looked up in the flow.
AfterFilesUnchecked(f, w, result) ==
  IF result # "review" THEN w ELSE [w EXCEPT !.result = "waiting", !.at = EscalationStep]

\* A report that needs review makes the run wait, wherever its walk ended.
AfterFiles(f, w, result) ==
  IF result # "review" THEN w
  ELSE [w EXCEPT !.result = "waiting",
                 !.at = IF EscalationStep # None /\ HasStep(f, EscalationStep)
                        THEN EscalationStep ELSE @]

\* Mutant of Run: the continuation is left before the snapshot is stored.
RunInsertsFirst(k, r, c, outcomes) ==
  /\ request[k] = Idle /\ started[r] < MaxStarts
  /\ contracts[c] # None
  /\ LET w == ExecuteContractFlow(contracts[c], contracts[c].entry, outcomes, None)
     IN /\ w.result # "error"
        /\ Set(k, [at |-> "store", run |-> r, contract |-> c,
                   snapshot |-> Snapshot(started[r] + 1, None, contracts[c], outcomes, w)])
        /\ pending' = IF w.result # "waiting" THEN pending
                      ELSE [pending EXCEPT ![r] = [contract |-> c, step |-> w.at,
                                                   outcomes |-> outcomes, no |-> started[r] + 1]]
  /\ started' = [started EXCEPT ![r] = @ + 1]
  /\ UNCHANGED <<contracts, snapshots, decisions, restarts>>

\* The handler up to its first await; a walk that ends in an error is answered.
Run(k, r, c, outcomes) ==
  /\ request[k] = Idle /\ started[r] < MaxStarts
  /\ contracts[c] # None
  /\ LET f == contracts[c]
         w == ExecuteContractFlow(f, f.entry, outcomes, None)
     IN /\ w.result # "error"
        /\ \E result \in FileResults(c) :
             Set(k, [at |-> "store", run |-> r, contract |-> c,
                     snapshot |-> Snapshot(started[r] + 1, None, f, outcomes,
                                           AfterFiles(f, w, result))])
  /\ started' = [started EXCEPT ![r] = @ + 1]
  /\ UNCHANGED <<contracts, pending, snapshots, decisions, restarts>>

\* Mutant of Store: an unavailable store is not answered but passed over.
StorePassesOver(k) ==
  /\ request[k].at = "store"
  /\ \/ snapshots' = [snapshots EXCEPT ![request[k].run] = request[k].snapshot]
     \/ UNCHANGED snapshots
  /\ IF request[k].snapshot.status = "blocked"
     THEN Set(k, [request[k] EXCEPT !.at = "insert"]) ELSE Finish(k)
  /\ UNCHANGED <<contracts, pending, started, decisions, restarts>>

\* Mutant of Store: a continuation is left only for a walk that stands at a gate.
StoreInsertsAtGates(k) ==
  /\ request[k].at = "store"
  /\ LET s == request[k].snapshot IN
     \/ /\ snapshots' = [snapshots EXCEPT ![request[k].run] = s]
        /\ IF s.status = "blocked" /\ IsGate(s.flow, s.walk.at)
           THEN Set(k, [request[k] EXCEPT !.at = "insert"]) ELSE Finish(k)
     \/ Finish(k) /\ UNCHANGED snapshots
  /\ UNCHANGED <<contracts, pending, started, decisions, restarts>>

\* put_snapshot: the store may be unavailable, and the request then ends here.
Store(k) ==
  /\ request[k].at = "store"
  /\ \/ /\ snapshots' = [snapshots EXCEPT ![request[k].run] = request[k].snapshot]
        /\ IF request[k].snapshot.status = "blocked"
           THEN Set(k, [request[k] EXCEPT !.at = "insert"]) ELSE Finish(k)
     \/ Finish(k) /\ UNCHANGED snapshots
  /\ UNCHANGED <<contracts, pending, started, decisions, restarts>>

\* The continuation is left and the client is told waiting_human.
Insert(k) ==
  /\ request[k].at = "insert"
  /\ LET s == request[k].snapshot IN
     pending' = [pending EXCEPT ![request[k].run] =
                   [contract |-> request[k].contract, step |-> s.walk.at,
                    outcomes |-> s.outcomes, no |-> s.no]]
  /\ Finish(k)
  /\ UNCHANGED <<contracts, snapshots, started, decisions, restarts>>

-----------------------------------------------------------------------------
(* The decision handler.  The continuation is removed from the map first   *)
(* and is gone whatever happens afterwards.                                *)

\* Mutant of Take: the continuation is read and stays in the map.
TakeKeeps(k, r, d) ==
  /\ request[k] = Idle /\ pending[r] # None /\ Len(decisions[r]) < 2
  /\ Set(k, [at |-> "continue", run |-> r, decision |-> d, held |-> pending[r]])
  /\ decisions' = [decisions EXCEPT ![r] = Append(@, [no |-> pending[r].no, decision |-> d])]
  /\ UNCHANGED <<contracts, pending, snapshots, started, restarts>>

Take(k, r, d) ==
  /\ request[k] = Idle /\ pending[r] # None
  /\ Set(k, [at |-> "continue", run |-> r, decision |-> d, held |-> pending[r]])
  /\ pending' = [pending EXCEPT ![r] = None]
  /\ decisions' = [decisions EXCEPT ![r] = Append(@, [no |-> pending[r].no, decision |-> d])]
  /\ UNCHANGED <<contracts, snapshots, started, restarts>>

\* The flow is the one registered now; its absence and an error of the walk
\* are answered 404 and 400.
Decide(k) ==
  /\ request[k].at = "continue"
  /\ LET held == request[k].held
         d    == request[k].decision
         f    == contracts[held.contract]
         w    == ExecuteContractFlow(f, held.step, held.outcomes, d)
     IN IF f = None \/ w.result = "error" THEN Finish(k)
        ELSE Set(k, [at |-> "store", run |-> request[k].run, contract |-> held.contract,
                     snapshot |-> Snapshot(held.no, d, f, held.outcomes, w)])
  /\ UNCHANGED <<contracts, pending, snapshots, started, decisions, restarts>>

\* The process dies: the registry, the continuations and every request go.
Restart ==
  /\ restarts < MaxRestarts
  /\ restarts' = restarts + 1
  /\ contracts' = [c \in Contracts |-> IF c \in DOMAIN Seed THEN Seed[c] ELSE None]
  /\ pending' = [r \in RunIds |-> None]
  /\ request' = [k \in Workers |-> Idle]
  /\ UNCHANGED <<snapshots, started, decisions>>

Next == \/ \E c \in Contracts, f \in Candidates : Register(c, f)
        \/ \E k \in Workers, r \in RunIds, c \in Contracts, o \in OutcomeMaps : Run(k, r, c, o)
        \/ \E k \in Workers : Store(k) \/ Insert(k) \/ Decide(k)
        \/ \E k \in Workers, r \in RunIds, d \in Decisions : Take(k, r, d)
        \/ Restart

Spec == Init /\ [][Next]_vars

-----------------------------------------------------------------------------
(* Properties *)

Decision == [no : 1 .. MaxStarts, decision : Decisions]

\* A walk in hand or on record: it stands on a step of its flow, its hops are bounded.
WalkTypeOK(f, w) == /\ HasStep(f, w.at)
                    /\ w.trace \in Seq(Steps) /\ Len(w.trace) <= Hops
                    /\ w.result \in {"waiting", "ended"}
                    /\ w.terminal \in Terminals \cup {None}

SnapshotTypeOK(s) == /\ s.status \in {"blocked", "completed"}
                     /\ s.told \in Terminals \cup {"waiting_human"}
                     /\ s.no \in 1 .. MaxStarts
                     /\ s.decision \in Decisions \cup {None}
                     /\ WalkTypeOK(s.flow, s.walk)

\* Types of the state; in particular a continuation always names a step.
TypeOK ==
  /\ contracts \in [Contracts -> LegacyFlow \cup {None}]
  /\ pending \in [RunIds -> Continuation \cup {None}]
  /\ \A r \in RunIds : /\ snapshots[r] # None => SnapshotTypeOK(snapshots[r])
                       /\ decisions[r] \in Seq(Decision)
  /\ \A k \in Workers :
       CASE request[k].at = "idle"     -> TRUE
         [] request[k].at = "continue" -> request[k].held \in Continuation
         [] OTHER -> request[k].at \in {"store", "insert"} /\ SnapshotTypeOK(request[k].snapshot)
  /\ started \in [RunIds -> 0 .. MaxStarts]
  /\ restarts \in 0 .. MaxRestarts

InHand == {request[k].snapshot : k \in {j \in Workers : request[j].at \in {"store", "insert"}}}

Recorded(r) == IF snapshots[r] = None THEN {} ELSE {snapshots[r]}

\* The position in the trace at which a decision is due: that of the first gate.
GateIndex(s) == {i \in DOMAIN s.walk.trace : IsGate(s.flow, s.walk.trace[i])}

DecidedAt(s, i) == s.decision # None /\ i \in GateIndex(s) /\ \A j \in GateIndex(s) : i <= j

\* What the documents call following `next` transitions deterministically: each
\* step of the trace is the target of the one before under the outcome the
\* request gave it, the decision standing in for the first gate's, and the walk
\* ends where the last target leads or at the hop limit.  The interpreter's loop
\* with its flags is compared with this statement on every run.
WalkFollowsFlow ==
  \A s \in InHand \cup UNION {Recorded(r) : r \in RunIds} :
    LET t == s.walk.trace
        Goes(i) == PickNextTarget(s.flow.steps[t[i]],
                                  IF DecidedAt(s, i) THEN s.decision ELSE s.outcomes[t[i]])
    IN /\ \A i \in 1 .. Len(t) - 1 : t[i + 1] = Goes(i)
       /\ s.walk.result = "ended" => \/ s.walk.terminal = Goes(Len(t))
                                     \/ /\ s.walk.terminal = None /\ Len(t) = Hops
                                        /\ s.walk.at = Goes(Len(t))

\* A gate holds until it is decided: a walk that went past a gate is that of a
\* decision a client took on this very start of the run.
GatePassedByDecision ==
  \A r \in RunIds :
    \A s \in Recorded(r) \cup {request[k].snapshot : k \in {j \in Workers :
                              request[j].at \in {"store", "insert"} /\ request[j].run = r}} :
      (\E i \in GateIndex(s) : i < Len(s.walk.trace) \/ s.walk.terminal # None) =>
        \E j \in DOMAIN decisions[r] : decisions[r][j] = [no |-> s.no, decision |-> s.decision]

\* A continuation is spent by one decision only, however many are sent at once.
DecisionTakenOnce ==
  \A r \in RunIds : \A i, j \in DOMAIN decisions[r] :
    decisions[r][i].no = decisions[r][j].no => i = j

\* A run that can be decided is on record: whoever was told waiting_human finds
\* the run's evidence, also when the store fails now and then.
WaitingRunPersisted == \A r \in RunIds : pending[r] # None => snapshots[r] # None

\* No run is lost but to a decision: one on record as blocked, with no request on
\* it in flight and the process alive since, can be decided, unless a decision on
\* it was made before (which, when it fails, loses the continuation).
BlockedRunDecidable ==
  \A r \in RunIds :
    /\ snapshots[r] # None /\ snapshots[r].status = "blocked" /\ restarts = 0
    /\ \A k \in Workers : request[k] # Idle => request[k].run # r
    => \/ pending[r] # None
       \/ decisions[r] # << >>

\* The evidence of a decision is never overwritten by that of the run's start,
\* whose snapshot must therefore be stored before the run can be decided.
DecisionSnapshotStays ==
  [][\A r \in RunIds :
       snapshots[r] # None /\ snapshots[r].decision # None /\ snapshots'[r] # snapshots[r] =>
         snapshots'[r].no # snapshots[r].no]_vars

=============================================================================
