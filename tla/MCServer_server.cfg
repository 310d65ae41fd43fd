SPECIFICATION RunSpec
CONSTANTS
  Parts = {"reports", "registry", "table", "budget", "dir", "upgrade"}
  w1 = w1  w2 = w2  w3 = w3  d1 = d1  d2 = d2
  None = None
  Findings = {x1, x2}
  Jobs = {"scan"}
  Identities = {i1, i2, i3}
  Dispatchers = {d1, d2}
  Destinations = {"github", "email"}
  ApprovalModes = {TRUE, FALSE}
  Urls = {x1, x2}
  Trackers = {acme, other}
  Allowed = {acme}
  Apps = {w1, w2}
  AppRequests = {d1, d2}
  MaxRepo = 2
  MaxSecret = 3
  MaxTime = 1
  BudgetTime = 2
  Inits = {"first", "second"}
  Servers = {"server"}
  Procs = {"p", "q"}
  Builds = {1, 2, 5, 6, 7}
  StoredJobs = {"scan", "v", "w"}
  Verifies = {"v", "w"}
SYMMETRY Symmetry
INVARIANTS
  ReportedWasDelivered
  RepeatsExplained
  CredentialsSound
  WindowBounded
  BundleSound
  UpgradeSound
PROPERTIES
  ReportedIsFinal
  StoredIsKept
