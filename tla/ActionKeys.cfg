\* Two requests in flight, three submissions with and without a key, a store that is eventually consistent.
SPECIFICATION Spec
CONSTANTS
  None = None
  k1 = k1
  k2 = k2
  Connectors <- MCConnectors
  Generic = "http"
  EndpointRefs = {"e1", "e2"}
  Scopes = {"actions.run", "actions.validate"}
  RunScope = "actions.run"
  Issuers = {"trusted", "other"}
  Audiences = {"us", "them"}
  Urls = {"u1"}
  Workers = {k1, k2}
  Submissions <- KeyedAndNot
  RunIds <- MCRunIds
  RunOfKey <- SanitizedKeys
  RunOfId <- NamedIds
  Configs <- OnlyHttp
  Retention = TRUE
  Eventual = TRUE
  MaxSubmissions = 3
SYMMETRY WorkerSymmetry
INVARIANTS
  TypeOK
  RetriesWithinPolicy
  EvidenceTellsCall
  SettledKeyNotCalledAgain
  AcceptedRunOnRecord
CHECK_DEADLOCK FALSE
