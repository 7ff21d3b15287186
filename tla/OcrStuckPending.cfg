SPECIFICATION Spec
CONSTANTS
  loop = loop
  cron = cron
  NumJobs = 1
  Wezwanie <- OneWezwanie
  Workers <- TwoProcesses
  MaxAttempts = 2
  Limit = 1
  MaxFile = 1
  MaxCrashes = 0
INVARIANT TerminalAfterMaxAttempts
