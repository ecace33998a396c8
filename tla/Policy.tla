-------------------------------- MODULE Policy --------------------------------
(***************************************************************************)
(* Who may run an action: the verifiers of src/auth/mod.rs and the         *)
(* decision of src/policy/mod.rs.  A token is reduced to what parsing it   *)
(* yields: issuer None stands for a string that does not parse (a blank    *)
(* one included), audience None for a token that names none.  The reason   *)
(* of a refusal is left out.                                               *)
(***************************************************************************)
EXTENDS Naturals

CONSTANTS
  None,                        \* absence
  Issuers, Audiences, Scopes,
  RunScope                     \* "actions.run"

ASSUME PolicyAssumption == None \notin Issuers \cup Audiences /\ RunScope \in Scopes

Token == [issuer : Issuers \cup {None}, audience : Audiences \cup {None}]

\* Every mode but "production" is the placeholder mode.
AuthContext == [production : BOOLEAN, token : Token \cup {None}, scopes : SUBSET Scopes]

Verification == [verified : BOOLEAN, scopes : SUBSET Scopes]

Unverified == [verified |-> FALSE, scopes |-> {}]

\* What a deployment trusts; `fixtures` are the answers of the offline stub.
TrustConfig ==
  [verifier : {"deterministic_local", "offline_provider_stub", "unsupported"},
   issuers : SUBSET Issuers, audiences : SUBSET Audiences, scopes : SUBSET Scopes,
   fixtures : [Token -> Verification \cup {None}]]

ValidTrust(g) ==
  /\ g.verifier # "unsupported"
  /\ g.verifier = "deterministic_local"   => g.issuers # {}
  /\ g.verifier = "offline_provider_stub" => \E t \in Token : g.fixtures[t] # None

\* No trusted audience means that any will do, and no allowed scope likewise.
DeterministicVerify(g, a) ==
  IF /\ a.token # None /\ a.token.issuer # None
     /\ a.token.issuer \in g.issuers
     /\ g.audiences # {} => a.token.audience \in g.audiences
  THEN [verified |-> TRUE,
        scopes   |-> IF g.scopes = {} THEN a.scopes ELSE a.scopes \cap g.scopes]
  ELSE Unverified

\* The fixture of the token as it is, whatever the client asks for.
StubVerify(g, a) ==
  IF a.token # None /\ g.fixtures[a.token] # None THEN g.fixtures[a.token] ELSE Unverified

\* Mutant of Verify: a configuration that cannot be used is not looked at.
VerifyUnvalidated(g, a) ==
  IF g.verifier = "offline_provider_stub" THEN StubVerify(g, a) ELSE DeterministicVerify(g, a)

\* create_auth_verifier: an invalid configuration verifies nobody.
Verify(g, a) ==
  IF ~ValidTrust(g) THEN Unverified
  ELSE IF g.verifier = "deterministic_local" THEN DeterministicVerify(g, a) ELSE StubVerify(g, a)

\* A request without a context is in placeholder mode, which needs no rights.
Authorizes(g, a) ==
  a # None /\ a.production => LET v == Verify(g, a) IN v.verified /\ RunScope \in v.scopes

=============================================================================
