SPECIFICATION RunFairSpec
CONSTANTS
  Parts = {"job", "broker", "cache", "session", "network", "fanout", "git"}
  None = None
  Workers = {w1}
  MaxAttempts = 1
  LeaseTime = 1
  Conns = {x1, x2}
  RequestCeiling = 1
  OutputCeiling = 1
  TokenCeiling = 1
  MaxChunk = 1
  MaxTokens = 0
  Callers = {x1, x2}
  CacheKeys = {1}
  MaxCached = 0
  AgentFindings = {f1}
  AgentPatches = {}
  GoodPatches = {}
  GitHelpers = {x1}
  ScannedFiles = {x1, x2, x3}
  NativeFiles = {x3}
  FilesAtOnce = 2
  PatchedAtOnce = {0, 1, 9}
  MaxPermits = 8
  GitUrls = {own, other, plain, ambiguous}
  HttpsUrls = {own, other, ambiguous}
  MalformedUrls = {ambiguous}
  OwnUrl = own
  ConnectionLimit = 2
PROPERTIES
  WorkerEnds
