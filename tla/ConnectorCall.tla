---------------------------- MODULE ConnectorCall ----------------------------
(***************************************************************************)
(* The connector executors (src/connectors/mod.rs): which calls each of    *)
(* the four adapters lets through, and when the live ones try again.  An   *)
(* error code is reduced to the call being refused; what a provider says   *)
(* is reduced to how the retry loop treats it.                             *)
(***************************************************************************)
EXTENDS Policy

CONSTANTS
  Connectors,    \* connector ids; Generic is one of them
  Generic,       \* connector.http.generic.v1
  EndpointRefs, Urls

ASSUME ConnectorAssumption == Generic \in Connectors /\ None \notin EndpointRefs \cup Urls

Kinds   == {"deterministic_local", "offline_stub", "webhook_site", "http_generic"}
Intents == {"none", "local_only", "external_network", "destructive"}
Methods == {"GET", "POST", "PUT"}   \* PUT stands for every other method

Endpoint == [enabled : BOOLEAN, intents : SUBSET Intents, methods : SUBSET Methods,
             scopes : SUBSET Scopes, retries : 0 .. 255]

Config == [kind : Kinds, connectors : SUBSET Connectors, intents : SUBSET Intents,
           stubs : SUBSET Connectors, hooks : SUBSET Urls, retries : 0 .. 255,
           endpoints : [EndpointRefs -> Endpoint \cup {None}]]

Call == [connector : Connectors, intent : Intents, method : Methods, scopes : SUBSET Scopes,
         endpoint : EndpointRefs \cup {None}, target : Urls \cup {None}]

\* The endpoints a configuration has an entry for.
Registered(g) == {r \in EndpointRefs : g.endpoints[r] # None}

MaxRetries == 3

ValidEndpoint(e) == /\ e.methods # {} /\ e.methods \subseteq {"GET", "POST"}
                    /\ e.intents # {}
                    /\ e.retries <= MaxRetries

ValidConfig(g) ==
  /\ g.kind = "deterministic_local" => g.connectors # {}
  /\ g.kind = "offline_stub"        => g.stubs # {}
  /\ g.kind = "webhook_site"        => /\ \E u \in Urls : g.hooks = {u}
                                       /\ "external_network" \in g.intents
  /\ g.kind = "http_generic"        => Registered(g) # {}
  /\ \A r \in Registered(g) : ValidEndpoint(g.endpoints[r])
  /\ g.retries <= MaxRetries

-----------------------------------------------------------------------------
(* Guards *)

EndpointAdmits(e, c) == /\ e.enabled
                        /\ c.intent \in e.intents
                        /\ c.method \in {"GET", "POST"} /\ c.method \in e.methods
                        /\ e.scopes \subseteq c.scopes

HttpGenericAdmits(g, c) == /\ c.connector \in g.connectors
                           /\ c.intent \in g.intents /\ c.intent = "external_network"
                           /\ c.endpoint \in Registered(g)
                           /\ EndpointAdmits(g.endpoints[c.endpoint], c)

\* The local adapter does not look at the intents of its configuration for a
\* generic HTTP call, only at those of the endpoint.
LocalAdmits(g, c) == /\ c.connector \in g.connectors
                     /\ IF c.connector = Generic
                        THEN /\ c.intent = "external_network"
                             /\ c.endpoint \in Registered(g)
                             /\ EndpointAdmits(g.endpoints[c.endpoint], c)
                        ELSE c.intent \in g.intents

WebhookAdmits(g, c) == /\ c.connector \in g.connectors
                       /\ c.intent \in g.intents /\ c.intent = "external_network"
                       /\ c.target \in g.hooks

StubAdmits(g, c) == c.connector \in g.stubs

\* An invalid configuration refuses every call.
Admits(g, c) == /\ ValidConfig(g)
                /\ CASE g.kind = "deterministic_local" -> LocalAdmits(g, c)
                     [] g.kind = "offline_stub"        -> StubAdmits(g, c)
                     [] g.kind = "webhook_site"        -> WebhookAdmits(g, c)
                     [] g.kind = "http_generic"        -> HttpGenericAdmits(g, c)

\* The adapters that send requests; the others answer by themselves.
IsLive(g) == g.kind \in {"webhook_site", "http_generic"}

Retries(g, c) == IF g.kind = "http_generic" THEN g.endpoints[c.endpoint].retries ELSE g.retries

-----------------------------------------------------------------------------
(* The retry loop: what one request comes back with, and what then.        *)

\* A 2xx answer; a 5xx answer; no answer (network failure or timeout); any
\* other status; an error of the client before anything is sent.
Outcomes == {"ok", "server_error", "unreachable", "rejected", "invalid"}

Retryable == {"server_error", "unreachable"}

\* Mutant of Verdict: one retry too many.
VerdictLate(attempt, retries, outcome) ==
  CASE outcome = "ok" -> "done"
    [] outcome \in Retryable /\ attempt <= retries -> "again"
    [] OTHER -> "failed"

Verdict(attempt, retries, outcome) ==
  CASE outcome = "ok" -> "done"
    [] outcome \in Retryable /\ attempt < retries -> "again"
    [] OTHER -> "failed"

=============================================================================
