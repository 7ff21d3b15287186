SPECIFICATION Spec
CONSTANTS
  Visitors = {}
  Emails = {}
  MaxClients = 0
  Answers = {}
  Purposes = {}
  AfterReview = {}
  MaxLinks = 0
  Devices = {d1, d2}
  ConsentPurposes = {"data_processing", "marketing"}
  MaxConsents = 3
  Uploads = {}
  MaxRuns = 0
  NumPapers = 0
  NumSheets = 0
  Moves = {}
  NumPeople = 0
  Processes = {}
  Contents = {"text"}
INVARIANTS
  ChainVerifies
CHECK_DEADLOCK FALSE
