SPECIFICATION RunSpec
CONSTANTS
  Parts = {"job", "broker", "cache", "session", "network", "discovery", "fanout", "git"}
  None = None
  Workers = {w1}
  MaxAttempts = 2
  LeaseTime = 0
  Conns = {x1, x2}
  RequestCeiling = 3
  OutputCeiling = 1
  TokenCeiling = 1
  MaxChunk = 1
  MaxTokens = 1
  Callers = {x1, x2}
  CacheKeys = {1, 2}
  MaxCached = 1
  AgentFindings = {f1}
  AgentPatches = {good, bad}
  GoodPatches = {good}
  GitHelpers = {x1, x2}
  ScannedFiles = {x1, x2, x3, x4}
  NativeFiles = {x3, x4}
  FilesAtOnce = 2
  PatchedAtOnce = {0, 1, 9}
  MaxPermits = 8
  GitUrls = {own, other, plain, ambiguous}
  HttpsUrls = {own, other, ambiguous}
  MalformedUrls = {ambiguous}
  OwnUrl = own
  ConnectionLimit = 1
SYMMETRY Symmetry
INVARIANTS
  ResultsSound
  CeilingsHold
  CacheSound
  VerdictsDelivered
  NetworkSound
  DiscoverySound
  FanoutSound
  CredentialSafe
PROPERTIES
  ChildrenAccounted
