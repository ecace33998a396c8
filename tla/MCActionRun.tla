----------------------------- MODULE MCActionRun -----------------------------
(***************************************************************************)
(* Instances of ActionRun for TLC.                                         *)
(***************************************************************************)
EXTENDS ActionRun, TLC

CONSTANTS k1, k2

WorkerSymmetry == Permutations({k1, k2})

Docs == "docs"
Http == "http"
Hook == "hook"

MCConnectors == {Docs, Http, Hook}

Entry == [enabled |-> TRUE, intents |-> {"external_network"}, methods |-> {"POST"},
          scopes |-> {"actions.run"}, retries |-> 1]

\* The endpoints of the generic HTTP connector, one of them disabled.
Registry == "e1" :> Entry @@ "e2" :> [Entry EXCEPT !.enabled = FALSE, !.retries = 0]

NoEndpoints == [e \in EndpointRefs |-> None]

HttpConfig == [kind |-> "http_generic", connectors |-> {Http}, intents |-> {"external_network"},
               stubs |-> {}, hooks |-> {}, retries |-> 0, endpoints |-> Registry]

HookConfig == [HttpConfig EXCEPT !.kind = "webhook_site", !.connectors = {Hook},
                                 !.hooks = {"u1"}, !.retries = 2, !.endpoints = NoEndpoints]

LocalConfig == [HttpConfig EXCEPT !.kind = "deterministic_local", !.connectors = {Docs, Http},
                                  !.intents = {"none", "local_only"}]

StubConfig == [HttpConfig EXCEPT !.kind = "offline_stub", !.connectors = {},
                                 !.stubs = {Docs}, !.endpoints = NoEndpoints]

\* A deployment whose endpoint allows no method: every call is refused.
BrokenConfig == [HttpConfig EXCEPT !.endpoints["e1"].methods = {}]

\* What deployments trust: the default, an offline stub, and a verifier the code
\* does not know.
NoFixtures == [t \in Token |-> None]

Known(issuer, audience) == [issuer |-> issuer, audience |-> audience]

LocalTrust == [verifier |-> "deterministic_local", issuers |-> {"trusted"}, audiences |-> {"us"},
               scopes |-> {"actions.run"}, fixtures |-> NoFixtures]

StubTrust ==
  [LocalTrust EXCEPT !.verifier = "offline_provider_stub",
                     !.fixtures[Known("other", None)] = [verified |-> TRUE, scopes |-> Scopes],
                     !.fixtures[Known("trusted", "us")] = [verified |-> FALSE, scopes |-> Scopes]]

UnknownTrust == [LocalTrust EXCEPT !.verifier = "unsupported"]

Deployment(connectors, auth) == [connectors |-> connectors, auth |-> auth]

OnlyHttp == {Deployment(HttpConfig, LocalTrust)}

EveryKind == {Deployment(c, LocalTrust) : c \in {HttpConfig, HookConfig, LocalConfig, StubConfig,
                                                 BrokenConfig}}
               \cup {Deployment(HttpConfig, t) : t \in {StubTrust, UnknownTrust}}

ToHttp == [connector |-> Http, intent |-> "external_network", method |-> "POST",
           scopes |-> {"actions.run"}, endpoint |-> "e1", target |-> None]

ToHook == [ToHttp EXCEPT !.connector = Hook, !.endpoint = None, !.target = "u1"]

ToDocs == [ToHttp EXCEPT !.connector = Docs, !.intent = "none", !.endpoint = None]

\* A client in placeholder mode, and one in production mode with a token.
Placeholder == [production |-> FALSE, token |-> None, scopes |-> {"actions.run"}]

With(token) == [Placeholder EXCEPT !.production = TRUE, !.token = token]

Submission(key, id, call) == [key |-> key, id |-> id, call |-> call, auth |-> Placeholder]

\* Keys "a.b" and "a_b" sanitize to the same name; request ids do not change.
SanitizedKeys == "a.b" :> "run_idem_a_b" @@ "a_b" :> "run_idem_a_b"

NamedIds == "q1" :> "run_q1"

MCRunIds == {"run_idem_a_b", "run_q1"}

\* One key and no key.
KeyedAndNot == {Submission("a.b", "q1", ToHttp), Submission(None, "q1", ToHttp)}

\* Every connector, a call no endpoint allows, and production clients with every
\* token, with none, or without the scope.
EveryCall ==
  {Submission("a.b", "q1", c) : c \in {ToHttp, ToHook, ToDocs, [ToHttp EXCEPT !.endpoint = "e2"]}}
    \cup {[Submission(None, "q1", ToHttp) EXCEPT !.auth = With(t)] : t \in Token \cup {None}}
    \cup {[Submission(None, "q1", [ToHttp EXCEPT !.scopes = {}])
             EXCEPT !.auth = [With(Known("trusted", "us")) EXCEPT !.scopes = {}]],
          [Submission(None, "q1", [ToHttp EXCEPT !.scopes = {}]) EXCEPT !.auth = None]}

=============================================================================
