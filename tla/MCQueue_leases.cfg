SPECIFICATION RunSpec
CONSTANTS
  Parts = {"leases", "recovery", "settings", "poll", "enrolment", "tokens"}
  None = None
  Jobs = {x1, x2, x3}
  Findings = {1}
  Workers = {w1, w2}
  VerifyWorkers = {w1}
  Attempts = {y1, y2}
  MAX_ATTEMPTS = 2
  LEASE_SECONDS = 1
  VALIDATING_BUDGET = 1
  RequestDelay = 1
  RepoSettings <- AllSettings
  PollJobs = {1}
  PollWorkers = {w1, w2}
  PollVerifiers = {w1}
  PollReviewers = {w2}
  MAX_LEASE_WAIT_SECS = 1
  MAX_REPAIRS = 2
  Names = {y1, y2}
  Certs = {y1, y2}
  Requests = {z1, z2}
  WorkerJobs = {"scan", "survey"}
  PhasedJobs = {"survey"}
  LeaseTime = 1
  Dispatches = {z1, z2}
  AppKeys = {y1, y2}
  CacheSecs = 1
  MaxTime = 1
  MaxTokens = 2
SYMMETRY Symmetry
INVARIANTS
  TypeOK
  LeaseFence
  VerifiedBeforeReport
  VerificationSound
  PendingOwned
  WakeupsReachClaims
  RevocationHolds
  TokensSound
PROPERTIES
  LiveLeaseKept
  PromiseKept
