SPECIFICATION FairSpec
CONSTANTS
  loop = loop
  cron = cron
  NumJobs = 2
  Wezwanie <- OneWezwanie
  Workers <- OneProcess
  MaxAttempts = 2
  Limit = 1
  MaxFile = 1
  MaxCrashes = 1
PROPERTIES
  ImplementsLifecycle
  FollowUpUnlessCrashed
