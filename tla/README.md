# Verification of mova-agent-api

TLA+ modules, TLC configurations and TLAPS proofs about the MOVA agent API
(`src/`, a Rust HTTP service on axum, with a Cloudflare worker variant). The
service lets an AI agent run *contracts*: flows of steps, fixed when the
contract is registered, that call connectors, stop at human gates and leave
observations and evidence of what happened. The agent chooses nothing but when
to ask for the next step; the value of the service is that the order of steps,
the gates and the evidence can be trusted.

Line numbers below are those of `src/http/mod.rs` unless a file is named.

## 1. Inventory

| component | state | operations | interacts with |
|---|---|---|---|
| contract registry (`contracts`, `contract_run`) | `admitted_contracts`: id -> contract, in memory | register (validate, insert; the last one wins), list, get | read by every handler of the corridor |
| contract-run corridor (`http`, `contract_run`, `contract_step`) | `contract_runs`: run id -> run state, in memory | start, status, next, execute, current gate, resolve, evidence | registry, admission, connectors, log, store |
| operation admission (`operation_admission`, `policy`, `auth`) | `last_admission` in the run state | recomputed by start, next, execute; rewritten by execute and resolve | scope decision of the policy, registry |
| human gate (`gate`) | `gate`, `current_gate_id` in the run state | opened by a transition, resolved once by approve or reject | transition, admission |
| observation log (`observation`) | `contract_run_observations`: run id -> records, in memory, append-only | append; read by snapshot and evidence | every handler of the corridor |
| evidence (`evidence`) | none | assembled from run state and log | snapshot, evidence endpoint |
| run store (`storage`) | snapshots: memory, files (temporary file and rename), or a key-value namespace | put, get | last act of every handler that changes a run |
| connector executors (`connectors`) | none; a call is an await with retries | execute | providers outside |
| legacy contract runs (`http`) | `legacy_contract_runs`: run id -> paused run | run to the next gate, decide | registry, store |
| flat action runs (`http`, `request`) | none but the store | validate, admit, call, record | policy, secrets, connectors, store |
| worker adapter (`worker_adapter`) | contracts, index, runs and snapshots in a key-value namespace | the same operations, by read and write of whole values | key-value namespace, providers |
| secrets, runtime, GitHub file bridge, flat execution plan | configuration at start-up, files, none | parsing, redaction, formatting | start-up only |

**What is hard here.** Axum serves requests concurrently. Every handler that
changes a run *clones* it out of a mutex-protected map, works on the clone
while other requests run (it awaits the connector and the store), and writes
the whole clone back without comparing (2029, 2257, 2400). So requests on the
same run overlap with lost updates, repeated side effects and decisions taken
on stale data. Run map, log, registry and store are four separate pieces of
state, updated and read in different lock scopes. A run copies the *steps* of
its flow when it starts, but transitions and connectors are read from the flow
registered *now*. Connectors fail, with or without effect, and the store may
be unavailable after the run map was already updated.

What makes each component correct:

* corridor: a run follows its flow; no gated step is left by approval without
  an approval on record; no gate decision ever applies to another step; no
  handler can find a run without its current step; runs do not get stuck;
* log and evidence: every provider call was admitted first, once; a status
  that says a run ended never appears without the observation that ended it;
  the log alone locates the run, and what was once on record stays on record;
* registry: only valid flows are admitted, and a later registration never
  makes a run incoherent;
* legacy runs: the interpreter's walk is the one its flow prescribes; a gate is
  passed by a decision on this very start of the run; a continuation is spent
  once, and what its decision recorded stays; a run that is on record as waiting
  can be decided;
* worker: the same over memories that vanish and a namespace that lags and
  forgets evidence: no continuation whose evidence was never stored, no decision
  undone, no client told of a run or a contract that was not stored;
* connectors and flat actions: a provider is called no more often than the
  policy of the endpoint allows and for nobody the deployment does not trust,
  the evidence tells what it was sent, a used idempotency key does not act
  again, and every request is answered;
* store: a put takes effect at one instant or not at all, whatever fails.

`PROJECT.json` lists the hazards with their lines and the properties aimed at
each.

## 2. Plan

All of it is done, in this order:

1. `ContractFlow`, `ContractRun`, `ContractWalk`, `ContractRunProperties`: the
   corridor and what it promises.
2. `ContractRunProofs`: the inductive invariant of types and coherence.
3. `LegacyWalk`, `LegacyRun`, `LegacyRunProofs`: the flow interpreter and the
   compatibility endpoints.
4. `ConnectorCall`, `ActionRun`: adapters and retries, the flat action, keys.
5. `ContractRunLogProofs`: admissions, ends and approvals for any number of
   overlapping requests, registrations and restarts.
6. `KVNamespace`, `WorkerRun`: the worker's contract endpoints.
7. `RunStore`, `FileStore`, `FileStoreProofs`: the file-backed store, the map
   it implements and the proof that it does.
8. `Policy`, entries that expire, restarts over the surviving snapshots.
9. `ActionRunProofs`: retries, evidence, keys and trust for every deployment.
10. `WalkProofs`: what the flow interpreter computes, for every flow; on it, all
    properties of `LegacyRun`.
11. `WorkerRunProofs`: every property of `WorkerRun`, for any number of isolates
    and overlapping requests and a namespace that lags, fails and expires.
12. `ContractRunSequentialProofs`: what holds of a run whose requests do not
    overlap, among it the refinement of `ContractWalk`.

Worth doing next: the handlers of the corridor over `FileStore` instead of the
atomic map; corridor, legacy and action runs over the one store they share.

## 3. Modules

**`ContractFlow`** (`contracts/mod.rs`, `contract_run/mod.rs`). A flow is a
record of its entry and a function from step ids to steps; the JSON object
`next` of a step is a function from the four outcome keys to a target. The
validation predicates keep the names and the order of the Rust functions.
`ResolveFlowTransition` falls back to `default` as `pick_next_target` does and
is `None` where the code returns an error.

**`ContractRun`**. One action per critical section:

| request | actions |
|---|---|
| `POST /contracts/register` | `Register` |
| `POST /contracts/{id}/runs` | `Start`, `Insert`, persist |
| `GET .../next` | `GetNext` (one lock scope) |
| `GET .../evidence` | `EvidenceRead`, `EvidenceAnswer` (two lock scopes) |
| `POST .../execute` | `ExecuteRead`, then `ExecuteDeny` or `ExecuteAdmit`; for a connector `ConnectorOk` or `ConnectorErr`; `ExecuteRecord` and `ExecuteTrace`, or `ExecuteNoTransition`, or `ExecuteLostTarget`; `Insert`, persist |
| `POST .../resolve` | `ResolveRead`, then `Approve`, or `Reject` and `RecordReject`, or `RejectNoTransition`; `Insert`, persist |
| persist | `PersistRead` (log under its lock), `PersistPut` or `PersistFail` |
| process | `Restart`: registry, runs and logs go, snapshots stay |

A request in flight is `req[w]`: the point it has reached, its clone of the
run, and the few locals it still needs. `calls` is a history variable: the
connector calls that reached a provider.

What is abstracted: ids, timestamps, payloads and response bodies;
`current_gate_id` (the id of `gate`, but for a rejection that leads to a second
gate; no handler reads it); `last_admission` to its reason
code; `completed_step_ids` to its length; `observation_count` and the number
in an evidence reference are kept, because the code computes the one from the
log and the other from the clone. The registered flow is read in the same
action as the append that follows it without an await. Contracts are never
removed, so the `contract_not_found` answers of running requests cannot occur.
The scope decision is a pure function of the request's auth context, fixed at
start. Requests that are refused without a change of state (404, 409, 403,
400) are not modelled, except where a handler has already changed something.

**`ContractWalk`** is the abstract specification: a run is a walk along its
contract's flow that waits at gates. It knows nothing of requests, clones,
logs or admission. **`ContractRunProperties`** defines the mapping
(`PositionOf`) and states `StateAdvancesByFlow`, together with the properties
that need an assumption on the use of the API, and the statement of the
repository's documents about gates that the code does not keep.

**`MCContractRun`** gives the instances: the seeded `daily_owner_report_v0`
(connector, gate, terminal), a rework loop, a flow with missing transitions, a
flow with two gates, one that opens with a gate, and versions of the report
for re-registration.

**`LegacyWalk`** is the flow interpreter `execute_contract_flow`: `Hop` is one
iteration of its loop, `ExecuteContractFlow` the loop, a recursive function over
at most `Hops` iterations, so that it can be proved about. A step is reduced to whether it is a gate and to its
transitions; the outcomes a client asks of the steps are a function.

**`LegacyRun`** models the compatibility endpoints. A handler runs to its first
await in one action and then takes one action per await or critical section:

| request | actions |
|---|---|
| `POST /contracts/register` | `Register` (shared with the corridor in the code) |
| `POST /contracts/{id}/run` | `Run` (walk, report files), `Store`, and for a waiting run `Insert` |
| `POST /contracts/runs/{id}/decision` | `Take` (removes the continuation), `Decide` (walks on), `Store` |
| process | `Restart`: memory goes, snapshots stay |

`snapshots` is the run store, `pending` is `legacy_contract_runs`. A snapshot
carries its walk, the flow and outcomes it was made of, and the number of the
start it belongs to, as history for the properties. `started` and `decisions`
are history too. The report files of one built-in contract are the choice
`FileResults`. Answers that change nothing (404, 400, 403) are left out, except
where the continuation has already been taken.

**`ConnectorCall`** has no state: configurations and their validation, the
guard of each adapter (`LocalAdmits`, `StubAdmits`, `WebhookAdmits`,
`HttpGenericAdmits`) and the retry loop's decision (`Verdict`).

**`Policy`** has none either: a trust configuration and its validation, the two
verifiers (`DeterministicVerify`, `StubVerify`), the one that takes their place
when the configuration is invalid (`Verify`), and the decision
(`Authorizes`). A token is what parsing it yields; the reason of a refusal is
left out.

**`ActionRun`** models `POST /actions/run`:

| step of the handler | action |
|---|---|
| request parsed, run id derived | `Submit` |
| `get_snapshot` for a request with a key | `Check` |
| policy or adapter refuses | `Refuse` |
| adapter without a provider | `CallLocally` |
| one turn of the retry loop | `Attempt` |
| `put_snapshot` and the answer | `Put` |
| a write reaches every place (external) | `Settle` |
| an entry reaches its time to live (external) | `Expire` |

The handler of the server is the same without `Check`, which a submission
without a key skips. What a deployment is configured with, `config`, is fixed
when it starts: the connector configuration and the trust configuration, valid
or not. `calls` is history: what each client sent, what its HTTP client saw,
the answer, and whether the run of its key could still be missed when it came
(`settled`) or went away since (`expired`).

**`KVNamespace`** is the namespace behind the worker. A cell holds the last
value written and the values reads may still return; that is how Cloudflare
documents the namespace, and it is modelled as external. With
`Eventual = FALSE` a write would be visible at once; every run has it `TRUE`, and
no theorem depends on it. In every model a write that is reported as failed may
or may not have happened.

**`WorkerRun`** models the worker's contract endpoints. Every isolate has its own
memory of contracts and continuations, asked before the namespace.

| request | actions |
|---|---|
| `POST /contracts/register` | `Register` (memory), `PutContract`, `GetIndex`, `PutIndex` |
| `POST /contracts/{id}/run` | `Run`, perhaps `GetContract`, `Body` (walks), `Store`, and for a waiting run `PutRun` |
| `POST /contracts/runs/{id}/decision` | `Decide`, perhaps `GetRun`, perhaps `GetContract`, walks, `Store`, `DeleteRun` |
| platform (external) | `Evict` (an isolate goes with its requests), `SettleRun`, `SettleContract`, `Expire` |

`Store` is followed, before the next await, by the change of the isolate's own
map (`AfterStore`). The walk is `LegacyWalk`'s: the worker has a copy of the
server's interpreter (`worker_adapter.rs` 785), the same word for word in what it
does with gates, transitions and the hop limit.

Three things of the namespace matter. Snapshots are put with the time to live
`MOVA_RUN_TTL_SECONDS` (a day in `wrangler.toml`), continuations and contracts
without one: `Expire` takes the evidence of a run away at any time when
`Retention` is set, and the continuation stays. The entry of the contract named
`index` has the key of the contract index (`contract_kv_key`, 64), and ids are
not validated: the index is the entry `IndexId` of `kv.contracts`, which
registering that id overwrites; what is read there is an index or a contract, and
a handler that expects the other answers an error. And a cell that was read late
may bring back what was overwritten.

History variables, besides `registered` and `started`, say what clients were
told (`published`, `answered`, `promised`, `accepted`), what was stored (`filed`)
and decided (`decisions`), and where requests overlapped (`contested`: two
registrations of a contract; `crossed`: two starts of a run; `early`: a start
decided before it was answered). A continuation carries the flow it was walked
on, also as history.

**`RunStore`** is the abstract store: a map in which a put takes effect at one
instant or not at all and a get returns what was stored at one instant.
**`FileStore`** is `FileBackedRunStore`: a put opens the temporary file of the
run, writes it piece by piece and renames it (`Open`, `Write`, `Rename`), a get
opens the published file and reads it piece by piece (`Get`, `Read`, `Return`),
anything may fail (`Fail`) and the process may end (`Crash`). Files are what the
operating system makes of them: a handle keeps writing to its file under
whatever name the file has by then. `StoreIsAtomicMap` is the refinement.

**The MC modules** give the instances. `MCLegacyRun`: three flows (one gate, two
gates, an endless loop) and two versions to register anew. `MCActionRun`: one
configuration per adapter and one that is refused, deployments that trust an
issuer, an offline stub with fixtures, and one with an unknown verifier, tokens
of every kind. `MCWorkerRun`: a flow with a review, left by an earlier
deployment, and a later version without it.
`MCFileStore`: symmetry.

Operators commented as mutants are variants of a definition with a plausible
mistake; each property of a passing run is violated when one of them replaces
the definition it varies. Nothing else refers to them.

## 4. Runs

Passing:

* `Concurrent.cfg`: two requests in flight on one run of the seeded contract.
  Types; `RunsCoherent` (a panic on a missing step, or an open or approved
  gate of another step, is impossible); `CallsAdmitted`;
  `ApprovalPrecedesGatedStep`; `EndIsRecorded` for map, snapshot and evidence
  answer. These hold although requests do overwrite each other.
* `Reregistration.cfg`: the contract is replaced by other versions (with a
  dropped, an added and a retyped step, one that opens with a gate, and one
  invalid) between any two steps of a handler, and the process may end and
  start again at any point, over snapshots of runs it no longer knows.
* `Sequential.cfg`: requests on a run never overlap and contracts stay as they
  are, for four flows: the report, a rework loop, a flow without a transition
  for a rejection, and one whose approval leads back to the same gate. Then the
  corridor implements `ContractWalk`, the log locates the run, the evidence on
  record only grows, and an approval is spent once even when the flow returns to
  the gate. Under `FairSpec` every run that is started ends, or the bound on its
  log is used up (`RunsSettle`).
* `LegacyConcurrent.cfg`: two requests on one run id, used twice, while the
  contract is replaced, the store fails and the process restarts. A gate is
  passed only by a decision on that start; a continuation is decided once; a
  run that waits is on record; a decision's evidence is not overwritten; a run
  on record as blocked can be decided, unless someone has tried or the process
  has lost it.
* `LegacyWalks.cfg`: every outcome a client may ask of every step of three
  flows, with and without a decision. The loop with its flags walks exactly
  along the flow's transitions.
* `ActionKeys.cfg`: three submissions, two at once, with and without a key, on
  a namespace with lagging reads, failing reads and writes, and entries that
  expire. Retries stay within the endpoint's policy, the evidence tells what was
  sent, an accepted run is on record, and a key whose run no read can miss does
  not act again; the last two until the entry expires.
* `ActionKinds.cfg`: every adapter, every verifier, a refused connector
  configuration and a trust configuration that cannot be used, clients with and
  without tokens, an endpoint that is disabled; no provider is called for a
  production client that is not trusted, and every request is answered.
* `WorkerShared.cfg`: two isolates, two requests in flight, lagging reads, failing
  writes, evictions, evidence that expires, a run id started twice. Wherever a
  continuation is still seen, its evidence was stored (`ContinuationOnRecord`); a
  gate is passed only by a decision on that start (`GatePassedByDecision`); the
  start does not overwrite what its decision stored, nor store after that has
  expired (`DecisionEvidenceStays`); a client told `waiting_human` does not lose
  the continuation (`PromisedRunKept`); and after a decision was answered 200,
  neither the namespace nor that isolate has a continuation of that start
  (`DecidedRunNotWaiting`).
* `WorkerRegistry.cfg`: two registrations that overlap, in two isolates, of a
  contract an earlier deployment left, of a new one and of the one whose entry is
  the index, while a run is started. An index that can still be read names nothing
  that was not written (`IndexedContractsStored`); a registration answered 201
  stays in its own entry (`PublishedContractStored`); a start walks what its
  isolate answered last, or newer (`NewestVersionWalked`).
* `FileStore.cfg`: three puts and gets at once on two runs, failures and crashes
  at any piece. A published file is whole, and the store implements `RunStore`.

Counterexamples, each to a statement of the documents (`findings` in
`PROJECT.json` quotes them): `ClaimOpenGate` (a rejection that leads to a second
gate leaves a waiting run without an open gate) and `ClaimDurable` (two puts of
one run share a temporary file, and a crash then leaves a published snapshot
that cannot be parsed).

The models show more of the kind, which have no run of their own:

* corridor: an execute that overlaps another calls the provider for a step the
  run has left; two overlapping resolves both record a decision on one gate, and
  a late write moves a run back or past steps (2400, 2685: handlers write their
  clone back without comparing); overlapping handlers store their snapshots in
  the other order, so that evidence shrinks (1438); a connector error drops the
  clone with its counter, so the retry repeats an evidence reference (2202); a
  target the run does not have, after a registration, answers 502 and records
  nothing (2321); a flow that opens with a gate starts without one and never
  moves (1900); a step that no gate guards is recorded with `approved_gate` as
  its basis (2276);
* legacy runs: a decision is spent on the first gate and the walk goes through
  the second one if that has a `default`; a decision that fails after the continuation was
  taken loses it;
* flat actions: a put that fails after the call leaves a key that calls again;
  different idempotency keys that sanitize alike name one run
  (`worker_adapter.rs` 430);
* worker: two isolates decide one start twice, lose each other's index entries,
  and serve an old version of a contract for as long as they live; a waiting run
  outlives its evidence and is then decided; registering a contract with the id
  `index` overwrites the index, after which registrations answer 503
  (`worker_adapter.rs` 64, 872); registering a version without the step a run
  waits at makes every decision on that run answer 400 (1409); a decision on an
  earlier start deletes the continuation of a later one (1471).

Bounds. `MaxObs` stops new requests on a run whose log has that many records
(requests in flight still finish); 6 is enough for a run of the seeded flow to
start, execute, be decided and be executed again with every overlap of two
requests, 9 for a full rework loop and two starts. `MaxStarts` bounds starts
of one run id. Two requests suffice for the hazards listed, all of which are
about one stale clone; runs do not share state, so one run id is enough.
Deadlock checking is off because the bounds let the system stop. `GetNext`
changes a run as well and is bounded like the other requests.

`Hops` is 128 in the code and 4 to 7 here: the flows have two or three steps, so
the hop limit is met by the endless flow and by no other. `MaxStarts = 2` lets a
run id be used again while its first start is still in flight, `MaxRestarts = 1`
puts a restart between any two steps. `MaxSubmissions` is 3 with two workers
(two requests that overlap and one that follows), retries are 1 and 2, which
reaches a failure before, at and after the last attempt.

`MaxRegistrations = 2` in `WorkerRegistry` makes a contract and its replacement,
two contracts in one index, or a contract and one that overwrites the index.
`MaxDecisions` counts the distinct decisions that read a continuation of the run:
with 1, two requests that send the same decision may still be in flight together,
and a request that has not read its continuation yet may add a second one. Nothing
is registered in `WorkerShared`, nothing decided or expired in `WorkerRegistry`;
both at once are beyond TLC, and the theorems about `WorkerRun` have no such
bound. `Pieces = 2` distinguishes a file that is empty, partial and whole, and
leftovers of a longer snapshot behind a shorter one; `MaxPuts = 3` lets a third
put find what two others have left. `Overlap = FALSE` in `FileStore` keeps puts
of one run apart, which the handlers of the server do not do by themselves:
`ClaimDurable` is the same model with `Overlap = TRUE`.

Fairness. `FairSpec` of the corridor assumes that a handler in flight is polled
again (the tokio runtime does; every await of the model ends), and that the
operator keeps trying what the API offers. Strong fairness is needed for the
second, since other requests may keep the handler busy between attempts. Nothing
is assumed about connectors succeeding or decisions made. `ActionRun`'s
`FairSpec` assumes only the first: the executor polls the handler of a request,
and every fetch and store operation is answered or fails. The second half is the
platform's: the `timeout_ms` of an endpoint is validated and shown in the
evidence, but no HTTP client in the repository enforces it
(`docs/MOVA_AGENT_API_V0_OPERATIONAL_HARDENING_BLOCK.md:84` says as much).
Clients are not assumed to send anything.

## 5. Proofs

`ContractRunProofs` proves, for every value of the constants (any number of
runs, contracts, flows and overlapping requests, no bound on the log, restarts
included):

* `TypeCorrect`: `Spec => []TypeOK`;
* `RunsAlwaysCoherent`: `Spec => []RunsCoherent`.

Both follow from the inductive invariant `IInv`. Coherence alone is not
inductive: a handler about to decide must still hold the open gate it read,
one about to trace must know its target, and a transition is only typed
because every held state names a registered contract. `IInv` adds these. The
proof has one lemma per group of actions of one handler; each uses a lemma for
what the step does to the requests (`ContinueOK`, `ServeOK`, `RespondOK`), to
the log (`AppendOK`) and to the clone (`StepTaken`, `EnterStepType`,
`ResolutionSound`). The only assumptions are those named in the modules: ids
are distinct from the absent value and from terminal names, and seeded flows
are valid.

`ContractRunLogProofs` proves `CallsAlwaysAdmitted`: `Spec => []CallsAdmitted`.
The log of a run only grows at its end, so what a call rests on cannot go away;
the invariant says, of every request between its admission and the provider's
answer, that its admission is in the log and that no call has used it.
It also proves `EndAlwaysRecorded`: `Spec => []EndIsRecorded`. Every state in
anyone's hands has its end in the log, but for a request that has still to trace
the transition it took, which is known to lead to that status (`Explains`), and
one that persists the log as it read it. A step completes a run only because some
flow that was seeded or submitted calls it terminal (`TypesKnown`), also when the
contract has been replaced since.

Last, it proves `GatesAlwaysApproved`: `Spec => []ApprovalPrecedesGatedStep`.
What is added is where approvals are: whoever holds a run whose gate is
approved, the run map included, has that approval in the log, and a request that
will leave a gated step by approval still holds such a gate.

`ContractRunSequentialProofs` proves the properties of `ContractRunProperties`
that need more than the code enforces. The handlers write their clone back
without comparing, so these hold of runs whose requests do not overlap; the
premises say what clients and contracts have to see to, and no more:

* `ApprovalsSpentOnce`: `Spec /\ []Apart => []ApprovalSpentOnce`;
* `EvidenceAlwaysLocates`: `Spec /\ []Apart /\ []FlowsFixed => []EvidenceLocatesRun`;
* `EvidenceOnRecordGrows`: `Restarts = FALSE` gives `Spec /\ []Apart => EvidenceGrows`;
* `StateAlwaysAdvances`: `Restarts = FALSE` and `RejectionsPassGates` give
  `Spec /\ []Apart /\ []FlowsFixed => StateAdvancesByFlow`, the refinement of
  `ContractWalk`.

`Apart` says that no two requests that may change one run are in flight
together; requests on different runs overlap in any way, and so do evidence
requests. It is needed: section 4 lists what overlapping requests do. `FlowsFixed`
says that no contract is replaced by another; a replacement may drop the step a
run stands on. A restart forgets the log while snapshots stay, so that the next
snapshot says less (hence `Restarts = FALSE` for evidence that grows), and it
forgets the run. `RejectionsPassGates` is the condition `ClaimOpenGate`
shows to be needed, and the runs' flows satisfy it.

With `Apart` a run has one `Actor`, the request on it, and a step of the whole
system is, for each run, one of few things (`Focus`, `Effect`): nothing, a
request that begins, the actor that goes on, or a restart. What the actor does is
described once (`Handled`: it admits, records, decides, moves, inserts, stores or
stops), and four invariants of one run and its actor are shown to last:
`RecordOK` (what is stored, and what is about to be, begins the log), `SpendOK`
(a gate still approved has an approval of its step in the log that no departure
has used, wherever that gate is held), `LocOK` (the clone is where the last move
places it; the map is too, unless the actor has traced and not yet inserted) and
`WalkOK` (what the actor will insert is what `ContractWalk` may do with the run
as it is now). Counting approvals against departures uses the cardinality of
sets of log positions (`Counted`). `PositionAbsenceAssumption` says that the
absent value is no position of a walk.

`WalkProofs` proves `ExecutedWalk`: whatever valid flow, start, outcomes,
decision and hop limit it is given, the interpreter returns an error or a walk
that follows the flow (`Followed`). Its trace is a path along the transitions;
it stands on a step of the flow; it ended where its last step leads, or at the
hop limit; and without a decision no gate is behind it. A walk that waits does so
at a gate nobody has decided (`PausedAtGate`). The loop is a recursive function on
the number of turns. The library's induction theorems take an
operator, which the installed provers cannot instantiate; the induction here is
over a set of numbers instead (`NatSetInduction`, from the well-foundedness of
the naturals), applied to the set of turns after which `LoopInv` holds.

`LegacyRunProofs` proves every property of `LegacyRun`, for any number of runs,
contracts, flows, starts, restarts and requests in flight:

* `DecisionTakenOnceAlways`: `Spec => []DecisionTakenOnce`;
* `DecisionSnapshotStaysAlways`: `Spec => DecisionSnapshotStays`;
* `TypeAlwaysOK`: `Spec => []TypeOK`;
* `WalkAlwaysFollowsFlow`: `Spec => []WalkFollowsFlow`;
* `GateAlwaysPassedByDecision`: `Spec => []GatePassedByDecision`;
* `WaitingRunAlwaysPersisted`: `Spec => []WaitingRunPersisted`;
* `BlockedRunAlwaysDecidable`: `Spec => []BlockedRunDecidable`.

Three invariants carry them. `Ownership` (`OwnershipAlways`): what keeps a
continuation from being decided twice is that the number of a start is in one
place only, first with the request that runs it, then in the map, then with the
one decision that took it, and that what a decision has stored is in nobody's
hands any more; each action hands the number on. It uses nothing of the
interpreter. `WalkInv`: what is in hand or stored is a walk that `ExecutedWalk`
describes, made on behalf of the decision it names. `WaitInv`: a blocked run on
record is with its request, in the map, or with a decision, unless one was tried
or the process has restarted.

`WorkerRunProofs` proves every property of `WorkerRun`, for any number of
isolates, requests, runs and contracts, however requests overlap, whatever reads
lag, whichever writes fail, and whether evidence expires or not. None of the
theorems has a premise:

* `WorkerTypeOK`: `Spec => []TypeOK`;
* `ContinuationAlwaysOnRecord`: `Spec => []ContinuationOnRecord`;
* `IndexedContractsAlwaysStored`: `Spec => []IndexedContractsStored`;
* `GateAlwaysPassedByDecisionOfWorker`: `Spec => []GatePassedByDecision`;
* `DecisionEvidenceAlwaysStays`: `Spec => DecisionEvidenceStays`;
* `PublishedContractAlwaysStored`: `Spec => []PublishedContractStored`;
* `PromisedRunAlwaysKept`: `Spec => []PromisedRunKept`;
* `DecidedRunNeverWaiting`: `Spec => []DecidedRunNotWaiting`;
* `NewestVersionAlwaysWalked`: `Spec => NewestVersionWalked`.

The first four follow from `WorkerInv`. It speaks of `Held`, what a place may
still return as well as what was written last, since a lagging read brings
either back; and of what a handler has read or written so far (an index in hand
names stored contracts only, a continuation about to be put has its evidence on
record). The cell of the index holds an index or a contract (`Place`). The fifth
needs `StartsFresh`: as long as a start has not stored its evidence, no other
request, no continuation in any isolate, cache or lagging place, and nothing that
was ever filed has its number. Evidence of a decision has the number of a
continuation, so the start that could overwrite it has already stored what it had.

What a client was told is not protected by the code: maps of isolates, entries
and index are read and written in separate steps. The properties say what is true
of it all the same, and where overlap takes something away they say that instead
of assuming it does not happen: of registrations of one contract that overlap one
stays, of starts of one run that overlap one leaves its continuation, a start
decided before it was answered may leave its continuation after the decision.
A step is one of a registration, which leaves runs alone, of a run or a decision,
which leaves contracts alone, or of the platform, so each invariant is shown
against few kinds of step:

* `RegistryInv`: what was published is in its entry (`Published`); a contract
  that is not contested has one registration in flight at most (`Sole`); that one
  is no older than what was published, and from the moment it has written the
  entry it is what the entry holds (`Recent`).
* `NewestInv`: an isolate knows what it has answered 201, or newer (`Known`), and
  what the registrations it serves are about to answer (`Learnt`).
* `PromiseInv`: a start in flight is the last one of its run unless starts
  overlapped (`LastStart`), so the continuation it leaves is at least as new as
  the one that was promised (`Stays`).
* `DecisionInv`: of a start that was answered and then decided no handler is left
  (`NoneServes`), so nobody puts a continuation back where the decision has
  removed it, first from the isolate (`Dropped`), then from the namespace
  (`Gone`); `Conclusive` says how far a decision in flight has come.

`FileStoreProofs` proves `FileStoreTypeOK`, `Spec => []TypeOK`, for any number of
callers, runs and pieces, and, under the assumption that puts of one run do not
overlap (`Overlap = FALSE`):

* `FilesAlwaysWhole`: `Spec => []PublishedWhole`;
* `FilesImplementMap`: `Spec => StoreIsAtomicMap`, the refinement of `RunStore`.

The invariant says that a temporary file is the file of at most one run and
never a published one, that a put has written exactly the first pieces of its
own snapshot and nothing else is in its file, and that a file that was once
published never changes again, which is why a get may take its time.

`ActionRunProofs` proves, for every deployment, any number of requests, keys
that collide, and a namespace that lags, fails and expires:

* `ActionRunTypeOK`: `Spec => []TypeOK`;
* `RetriesAlwaysWithinPolicy`: `Spec => []RetriesWithinPolicy`;
* `ProductionCallsAlwaysTrusted`: `Spec => []ProductionCallsTrusted`;
* `EvidenceAlwaysTellsCall`: `Spec => []EvidenceTellsCall`;
* `SettledKeyNeverCalledAgain`: `Spec => []SettledKeyNotCalledAgain`;
* `AcceptedAlwaysOnRecord`: `Spec => []AcceptedRunOnRecord`.

The type of the counters needs `Bounded`: a handler that is about to fetch has
retries left (`RetriesBounded`), and one that holds no verdict yet has not been
answered. The others follow from `IInv`. A call is in the hands of one request at most
(`HandsApart`), whose counter and status are those of the requests its client
has sent so far (`HandsTrue`); a snapshot on record is of a call that is over
(`EvidenceTrue`), so its log cannot grow any more; and a request whose key is
spent has got no further than the check (`KeysHeldBack`), because the value it
will read is a snapshot until the entry expires (`KeysOnRecord`). The
assumption `NoneAssumption` says that the absent value is none of the values it
is compared with.

Every invariant and every action property of a passing run is stated by a
theorem. Only model-checked is liveness (`RunsSettle`, `RequestsAnswered`): the
prover does not reason about fairness or `ENABLED`.

## 6. Not modelled

Left out for good: resolving a contract source (outgoing HTTP and string checks
without state), the arithmetic and formatting of the report the GitHub file
bridge writes (a run depends on its three results only, which are modelled),
markers and message delivery of legacy runs (functions of the trace of a walk),
reading the environment and redacting secrets (at start-up, no state changes;
what is loaded is the deployment of `ActionRun`), checks of the shape of an
action's envelope and the list of denied clients (they refuse a request before
anything is read), header and body redaction, read-only endpoints that answer
from one place (the worker's list of contracts among them: it asks the index when
the isolate knows no contract, and changes nothing), a worker deployed without a
namespace, and the flat execution plan, which no handler uses.

Corridor, legacy and action runs put their snapshots into one store, under run
ids of one space. The modules take each kind of run by itself; what happens when
two kinds use the same id is not modelled.
