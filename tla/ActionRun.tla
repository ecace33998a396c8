------------------------------ MODULE ActionRun ------------------------------
(***************************************************************************)
(* POST /actions/run of the worker (src/worker_adapter.rs) and of the      *)
(* server (post_actions_run in src/http/mod.rs, which knows no idempotency *)
(* keys): the check for a run of the same key, the connector call with its *)
(* retries, and the snapshot that makes the run known.  Every step is what *)
(* happens up to the next await.                                           *)
(*                                                                         *)
(* The worker's run store is the namespace of KVNamespace; its entries     *)
(* expire if the deployment sets a time to live, and a write that reports  *)
(* an error may have happened.                                             *)
(***************************************************************************)
EXTENDS ConnectorCall, KVNamespace, Sequences, FiniteSets

CONSTANTS
  Workers,         \* requests that may be in flight at once
  Submissions,     \* what clients send: key or None, request id, call, auth context or None
  RunIds,
  RunOfKey,        \* idempotency key -> run id, after sanitize_idempotency_key
  RunOfId,         \* request id -> run id
  Retention,       \* whether MOVA_RUN_TTL_SECONDS is set, so that entries expire
  Configs,         \* the configurations a deployment may have
  MaxSubmissions

\* RuntimeConfig: what a deployment is configured with; `connectors` is kept
\* also when it is refused as invalid, and then admits no call.
RuntimeConfig == [connectors : Config, auth : TrustConfig]

\* auth_scopes_from_context: an endpoint compares its scopes with the client's.
ClaimedScopes(a) == IF a = None THEN {} ELSE a.scopes

ASSUME SubmissionAssumption ==
  /\ MaxSubmissions \in Nat /\ Retention \in BOOLEAN
  /\ \A s \in Submissions :
       /\ s.key # None => s.key \in DOMAIN RunOfKey
       /\ s.id \in DOMAIN RunOfId /\ s.call \in Call
       /\ s.auth \in AuthContext \cup {None} /\ s.call.scopes = ClaimedScopes(s.auth)
  /\ \A k \in DOMAIN RunOfKey : RunOfKey[k] \in RunIds
  /\ \A i \in DOMAIN RunOfId : RunOfId[i] \in RunIds
  /\ Configs \subseteq RuntimeConfig

\* The evidence a snapshot keeps of the call it was made of.
SnapshotRecord == [no : Nat, attempts : Nat, status : {None, "server_error"}, performed : BOOLEAN]

ASSUME NoneAssumption ==
  None # "server_error" /\ None \notin SnapshotRecord /\ None # [is |-> "accepted"]

VARIABLES
  config,    \* fixed when the deployment starts
  store,     \* run id -> its cell in the run store
  request,   \* worker -> what its handler holds
  calls      \* history: the submissions in the order of their arrival, with
             \* what the provider was sent and what the client was told

vars == <<config, store, request, calls>>

Idle == [at |-> "idle"]

RunOf(s) == IF s.key = None THEN RunOfId[s.id] ELSE RunOfKey[s.key]

Init == /\ config \in Configs
        /\ store = [r \in RunIds |-> Cell(None)]
        /\ request = [k \in Workers |-> Idle]
        /\ calls = << >>

Mine(k) == calls[request[k].no]

Goto(k, point) == request' = [request EXCEPT ![k].at = point]

\* The client is answered and the handler is done.
Answer(k, answer) == /\ request' = [request EXCEPT ![k] = Idle]
                     /\ calls' = [calls EXCEPT ![request[k].no].answer = answer]

\* A request arrives; `settled` notes, for the record, whether no read can miss
\* the run of its key any more.
Submit(k, s) ==
  /\ request[k] = Idle /\ Len(calls) < MaxSubmissions
  /\ request' = [request EXCEPT ![k] =
                   [at |-> IF s.key = None THEN "call" ELSE "check",
                    no |-> Len(calls) + 1, attempt |-> 0, status |-> None]]
  /\ calls' = Append(calls, [sent |-> s, run |-> RunOf(s), log |-> << >>, answer |-> None,
                             expired |-> FALSE,
                             settled |-> s.key # None /\ None \notin store[RunOf(s)].visible])
  /\ UNCHANGED <<config, store>>

\* Mutant of Check: a failing read counts as no run.
CheckReadsNoneOnError(k) ==
  /\ request[k].at = "check"
  /\ \/ \E v \in store[Mine(k).run].visible :
          IF v # None THEN Answer(k, [is |-> "replayed", of |-> v])
          ELSE Goto(k, "call") /\ UNCHANGED calls
     \/ Goto(k, "call") /\ UNCHANGED calls
  /\ UNCHANGED <<config, store>>

\* A request with a key looks for a run of that key and is answered from it.
Check(k) ==
  /\ request[k].at = "check"
  /\ \/ \E v \in store[Mine(k).run].visible :
          IF v # None THEN Answer(k, [is |-> "replayed", of |-> v])
          ELSE Goto(k, "call") /\ UNCHANGED calls
     \/ Answer(k, [is |-> "unavailable"])
  /\ UNCHANGED <<config, store>>

Passes(k) == /\ Authorizes(config.auth, Mine(k).sent.auth)
             /\ Admits(config.connectors, Mine(k).sent.call)

\* Policy or the adapter refuses the call; nothing is sent.
Refuse(k) == /\ request[k].at = "call" /\ ~Passes(k)
             /\ Answer(k, [is |-> "refused"])
             /\ UNCHANGED <<config, store>>

Snapshot(no, attempts, status, performed) ==
  [no |-> no, attempts |-> attempts, status |-> status, performed |-> performed]

ToPut(k, snapshot) == request' = [request EXCEPT ![k] = [at |-> "put", no |-> @.no,
                                                         snapshot |-> snapshot]]

\* An adapter without a provider completes the call by itself.
CallLocally(k) == /\ request[k].at = "call" /\ Passes(k) /\ ~IsLive(config.connectors)
                  /\ ToPut(k, Snapshot(request[k].no, 1, None, FALSE))
                  /\ UNCHANGED <<config, store, calls>>

\* Mutant of Attempt: a failure without an answer is not counted.
AttemptUncounted(k) ==
  /\ request[k].at = "call" /\ Passes(k) /\ IsLive(config.connectors)
  /\ Len(Mine(k).log) <= MaxRetries + 1
  /\ \E o \in Outcomes :
       LET q       == request[k]
           status  == IF o = "server_error" THEN o ELSE q.status
           verdict == Verdict(q.attempt, Retries(config.connectors, Mine(k).sent.call), o)
           logged  == [Mine(k) EXCEPT !.log = Append(@, o)]
       IN \/ /\ verdict = "done"
             /\ ToPut(k, Snapshot(q.no, q.attempt + 1, status, TRUE))
             /\ calls' = [calls EXCEPT ![q.no] = logged]
          \/ /\ verdict = "again"
             /\ request' = [request EXCEPT ![k].attempt = IF o = "unreachable" THEN @ ELSE @ + 1,
                                           ![k].status = status]
             /\ calls' = [calls EXCEPT ![q.no] = logged]
          \/ /\ verdict = "failed"
             /\ request' = [request EXCEPT ![k] = Idle]
             /\ calls' = [calls EXCEPT ![q.no] = [logged EXCEPT !.answer = [is |-> "failed"]]]
  /\ UNCHANGED <<config, store>>

\* One turn of the retry loop; the status of the last 5xx answer is kept.
Attempt(k) ==
  /\ request[k].at = "call" /\ Passes(k) /\ IsLive(config.connectors)
  /\ \E o \in Outcomes :
       LET q       == request[k]
           status  == IF o = "server_error" THEN o ELSE q.status
           verdict == Verdict(q.attempt, Retries(config.connectors, Mine(k).sent.call), o)
           logged  == [Mine(k) EXCEPT !.log = Append(@, o)]
       IN \/ /\ verdict = "done"
             /\ ToPut(k, Snapshot(q.no, q.attempt + 1, status, TRUE))
             /\ calls' = [calls EXCEPT ![q.no] = logged]
          \/ /\ verdict = "again"
             /\ request' = [request EXCEPT ![k].attempt = @ + 1, ![k].status = status]
             /\ calls' = [calls EXCEPT ![q.no] = logged]
          \/ /\ verdict = "failed"
             /\ request' = [request EXCEPT ![k] = Idle]
             /\ calls' = [calls EXCEPT ![q.no] = [logged EXCEPT !.answer = [is |-> "failed"]]]
  /\ UNCHANGED <<config, store>>

Record(k) == store' = [store EXCEPT ![Mine(k).run] = Written(@, request[k].snapshot)]

\* Mutant of Put: the client is told before the store has answered.
PutUnchecked(k) ==
  /\ request[k].at = "put"
  /\ Record(k) \/ UNCHANGED store
  /\ Answer(k, [is |-> "accepted"])
  /\ UNCHANGED config

\* Mutant of Put: after a failure is answered the handler goes on.
PutGoesOn(k) ==
  /\ request[k].at = "put"
  /\ \/ Record(k) /\ Answer(k, [is |-> "accepted"])
     \/ /\ UNCHANGED <<store, request>>
        /\ calls' = [calls EXCEPT ![request[k].no].answer = [is |-> "unavailable"]]
  /\ UNCHANGED config

\* put_snapshot; a write that is reported as failed may have happened.
Put(k) ==
  /\ request[k].at = "put"
  /\ \/ Record(k) /\ Answer(k, [is |-> "accepted"])
     \/ (Record(k) \/ UNCHANGED store) /\ Answer(k, [is |-> "unavailable"])
  /\ UNCHANGED config

\* The last write of a run has reached every place.
Settle(r) == /\ store[r].visible # {store[r].latest}
             /\ store' = [store EXCEPT ![r] = Settled(@)]
             /\ UNCHANGED <<config, request, calls>>

\* The entry of a run reaches its time to live; the calls it concerns are marked.
Expire(r) == /\ Retention /\ store[r].latest # None
             /\ store' = [store EXCEPT ![r] = Written(@, None)]
             /\ calls' = [n \in DOMAIN calls |->
                            [calls[n] EXCEPT !.expired = @ \/ calls[n].run = r]]
             /\ UNCHANGED <<config, request>>

Handle(k) == Check(k) \/ Refuse(k) \/ CallLocally(k) \/ Attempt(k) \/ Put(k)

Next == \/ \E k \in Workers, s \in Submissions : Submit(k, s)
        \/ \E k \in Workers : Handle(k)
        \/ \E r \in RunIds : Settle(r) \/ Expire(r)

Spec == Init /\ [][Next]_vars

\* A handler that can take a step takes it: the executor polls it, and every
\* fetch and every store operation is answered or fails.
FairSpec == Spec /\ \A k \in Workers : WF_vars(Handle(k))

-----------------------------------------------------------------------------
(* Properties *)

Numbers == 1 .. Len(calls)

SnapshotTypeOK(v) == /\ v.no \in Numbers /\ v.attempts \in 1 .. MaxRetries + 1
                     /\ v.status \in {None, "server_error"} /\ v.performed \in BOOLEAN

\* Types of the state; a handler works on a submission that awaits its answer.
TypeOK ==
  /\ config \in Configs
  /\ \A r \in RunIds : \A v \in store[r].visible \cup {store[r].latest} :
       v # None => SnapshotTypeOK(v)
  /\ \A k \in Workers : request[k] # Idle =>
       /\ request[k].no \in Numbers /\ Mine(k).answer = None
       /\ CASE request[k].at \in {"check", "call"} -> request[k].attempt \in 0 .. MaxRetries
            [] OTHER -> request[k].at = "put" /\ SnapshotTypeOK(request[k].snapshot)
  /\ \A n \in Numbers : calls[n].sent \in Submissions /\ calls[n].run \in RunIds

\* The retry policy of a call as the provider sees it: never more requests than
\* the endpoint allows, and none after an answer that is not worth a retry.
RetriesWithinPolicy ==
  \A n \in Numbers : LET log == calls[n].log IN
    /\ \A i \in 1 .. Len(log) - 1 : log[i] \in Retryable
    /\ log # << >> => Len(log) <= Retries(config.connectors, calls[n].sent.call) + 1

\* In production mode a provider is called only for a token that names a trusted
\* issuer and, where audiences are listed, a trusted audience, or for which the
\* stub has a verified fixture; and in no deployment whose verifier is misconfigured.
ProductionCallsTrusted ==
  \A n \in Numbers : LET a == calls[n].sent.auth
                         g == config.auth
                     IN (calls[n].log # << >> /\ a # None) =>
    (a.production =>
       /\ a.token # None
       /\ CASE g.verifier = "deterministic_local" ->
                 /\ a.token.issuer \in g.issuers /\ RunScope \in a.scopes
                 /\ g.audiences = {} \/ a.token.audience \in g.audiences
            [] g.verifier = "offline_provider_stub" ->
                 g.fixtures[a.token] \in {v \in Verification : v.verified /\ RunScope \in v.scopes}
            [] OTHER -> FALSE)

\* The evidence of a run tells what the provider saw: how many requests, whether
\* one of them met a server error, and that the last one succeeded.
EvidenceTellsCall ==
  \A r \in RunIds : \A v \in store[r].visible \ {None} :
    LET log == calls[v.no].log IN
      /\ calls[v.no].run = r
      /\ v.performed <=> log # << >>
      /\ v.performed => /\ v.attempts = Len(log) /\ log[Len(log)] = "ok"
                        /\ v.status # None <=> \E i \in DOMAIN log : log[i] = "server_error"

\* A client that was told its run is accepted finds the evidence of a run of
\* that id once the store has settled, also when others use the id, and as long
\* as no entry of the run expires.
AcceptedRunOnRecord ==
  \A n \in Numbers : calls[n].answer = [is |-> "accepted"] /\ ~calls[n].expired =>
    store[calls[n].run].latest # None

\* A key is spent: once no read can miss the run of a key, a request with that
\* key does not reach the provider, whatever happens to others in flight, unless
\* the entry expires under it.
SettledKeyNotCalledAgain ==
  \A n \in Numbers : calls[n].settled /\ ~calls[n].expired => calls[n].log = << >>

\* Every request is answered: the retry loop ends for every provider.
RequestsAnswered == \A k \in Workers : request[k] # Idle ~> request[k] = Idle

=============================================================================
