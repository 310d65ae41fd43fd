SPECIFICATION RunSpec
CONSTANTS
  Parts = {"leases"}
  None = None
  Jobs = {x1, x2}
  Findings = {1}
  Workers = {w1}
  VerifyWorkers = {w1}
  Attempts = {y1}
  MAX_ATTEMPTS = 2
  LEASE_SECONDS = 1
  VALIDATING_BUDGET = 0
  RequestDelay = 0
  RepoSettings <- VerifyOnly
  PollJobs = {}
  PollWorkers = {w1, w2}
  PollVerifiers = {w1}
  PollReviewers = {w2}
  MAX_LEASE_WAIT_SECS = 1
  MAX_REPAIRS = 1
  Names = {}
  Certs = {}
  Requests = {z1, z2}
  WorkerJobs = {"scan", "survey"}
  PhasedJobs = {"survey"}
  LeaseTime = 0
  Dispatches = {z1, z2}
  AppKeys = {y1, y2}
  CacheSecs = 1
  MaxTime = 0
  MaxTokens = 0
PROPERTIES
  RetryRequiresValidating
