SPECIFICATION MCFairSpec
CONSTANTS
  cron = cron
  retry = retry
  cli = cli
  NumCampaigns = 2
  NumRecipients = 2
  Cron <- TwoCrons
  Operators <- OneOperator
  Limit = 1
  Attempts = 2
  MaxMishaps = 2
INVARIANTS
  NoDuplicates
  CountersAreReal
PROPERTY EveryCampaignFinishes
