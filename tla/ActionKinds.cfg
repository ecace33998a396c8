\* Every adapter and an invalid configuration, one request at a time.
SPECIFICATION FairSpec
CONSTANTS
  None = None
  k1 = k1
  k2 = k2
  Connectors <- MCConnectors
  Generic = "http"
  EndpointRefs = {"e1", "e2"}
  Scopes = {"actions.run", "actions.validate"}
  RunScope = "actions.run"
  Issuers = {"trusted", "other"}
  Audiences = {"us", "them"}
  Urls = {"u1"}
  Workers = {k1}
  Submissions <- EveryCall
  RunIds <- MCRunIds
  RunOfKey <- SanitizedKeys
  RunOfId <- NamedIds
  Configs <- EveryKind
  Retention = FALSE
  Eventual = TRUE
  MaxSubmissions = 2
INVARIANTS
  RetriesWithinPolicy
  ProductionCallsTrusted
PROPERTIES
  RequestsAnswered
CHECK_DEADLOCK FALSE
