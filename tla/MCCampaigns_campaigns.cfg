SPECIFICATION RunSpec
CONSTANTS
  Parts = {"work", "units", "verdicts"}
  Campaigns = {1, 2, 3}
  Gens = {1, 2, 3}
  Commits = {y1, y2}
  Contracts = {z1, z2}
  SurveyJobs = {boot, y1, y2}
  NUnits = 3
  UNITS_PER_JOB = 2
  Promoted = {y1, y2}
  Legacy = {legacy}
  VerifyJobs = {x1, x2, x3}
  Dispatchers = {d, e}
  MaxSequence = 1
  ApprovalModes = {TRUE, FALSE}
  boot = boot  x1 = x1  x2 = x2  x3 = x3  y1 = y1  y2 = y2  z1 = z1  z2 = z2
  None = None
  Jobs = {x1, x2, x3}
  Leads = {lead}
  Findings = {finding}
  Units = {unit}
  UrgentItems = {}
  MAX_ATTEMPTS = 2
  MAX_JOBS = 3
  URGENT_RESERVE = 0
  VERIFICATION_RESERVE = 1
  DEADLINE = 2
  PHASE_DEADLINE = 2
  LEASE = 1
  GRACE = 1
  BACKOFF = 0
SYMMETRY Symmetry
INVARIANTS
  WorkAccounted
  UnitsAnswered
  VerdictsSettle
PROPERTIES
  SettledWorkStays
