SPECIFICATION Spec
CONSTANTS
  loop = loop
  cron = cron
  NumJobs = 1
  Wezwanie <- OneWezwanie
  Workers <- TwoProcesses
  MaxAttempts = 3
  Limit = 1
  MaxFile = 2
  MaxCrashes = 1
INVARIANTS
  AwaitsCurrentFile
