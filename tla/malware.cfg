\* Two events, one kill, two lives of the checker; a day has five ticks.
CONSTANTS
  u1 = u1
  u2 = u2
  None = None
  NoPayload = NoPayload
  NoUrl = NoUrl
  BadArgs = BadArgs
  Hashes = {h1, h2}
  Urls = {u1, u2}
  Scenarios <- MCScenarios
  DownloadInterval = 2
  cleanupinterval = 1
  max_requests_per_minute = 1
  max_requests_per_day = 1
  max_requests_per_month = 1
  Minute = 1
  Day = 5
  DaysPerMonth = 2
  FullSpeed = 1
  Sleep = 1
SYMMETRY Perms
SPECIFICATION Spec
INVARIANTS
  EveryUrlTried
  KnownHashHasBytes
  QuotaKept
\* The clock ends.
CHECK_DEADLOCK FALSE
