CONSTANTS
  Requests <- MCRequests
  RequestType = "external"
  Stage = 0
  Protocols = {"http1", "http2"}
  TimeoutMs = 1000
  BufferLimit = 1
  MaxChunks = 3
  Calls = {c1, c2, c3}
  Clients = {k1, k2, k3}
  PoolSize = 1
  Commands = {0, 2}
  ServersRequests = {r1, r2}
  StatsRequests = {s1}
  Servers <- TwoServers
  MaxRuns = 1
  RejectionsCrash = FALSE
SPECIFICATION PartsSpec
INVARIANTS NoAssertFails HeldUntilJudged NothingLost ReadingResumes NoCrosstalk ActiveExact AnswersWhole
PROPERTIES Progress
