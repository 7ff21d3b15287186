SPECIFICATION FairSpec
CONSTANTS
  reminder = reminder
  receipt = receipt
  letter = letter
  note = note
  first = first
  second = second
  ServiceKeys <- Reminders
  CustomKeys <- OneLetter
  NoCase <- OneReceipt
  Senders <- TwoSenders
  Attempts = 3
  RateLimit = 2
  MaxMishaps = 2
INVARIANTS
  AtMostOnce
PROPERTY EveryReminderGetsOut
