SPECIFICATION RunSpec
CONSTANTS
  Parts = {"cache"}
  None = None
  Workers = {w1}
  MaxAttempts = 2
  LeaseTime = 0
  Conns = {x1, x2}
  RequestCeiling = 1
  OutputCeiling = 1
  TokenCeiling = 1
  MaxChunk = 1
  MaxTokens = 1
  Callers = {x1, x2}
  CacheKeys = {1, 2, 3}
  MaxCached = 1
  AgentFindings = {f1}
  AgentPatches = {good}
  GoodPatches = {good}
  GitHelpers = {x1}
  ScannedFiles = {x1, x2}
  NativeFiles = {}
  FilesAtOnce = 2
  PatchedAtOnce = {0, 1, 9}
  MaxPermits = 8
  GitUrls = {own, other, plain, ambiguous}
  HttpsUrls = {own, other, ambiguous}
  MalformedUrls = {ambiguous}
  OwnUrl = own
  ConnectionLimit = 1
PROPERTY EvictionSkipsPinned
