SPECIFICATION Spec
CONSTANTS
  Visitors = {v1, v2}
  Emails = {e1, e2}
  MaxClients = 3
  Answers = {"given"}
  Purposes = {"work"}
  AfterReview = {"fingerprints", "decision_received"}
  MaxLinks = 1
  Devices = {d1, d2}
  ConsentPurposes = {"data_processing", "marketing"}
  MaxConsents = 4
  Uploads = {"scan", "photo"}
  MaxRuns = 2
  NumPapers = 2
  NumSheets = 2
  Moves = {"mos_package_ready", "needs_correction"}
  NumPeople = 3
  Processes = {w1, w2}
  Contents = {c1, c2}
SYMMETRY Symmetry
INVARIANTS
  TypeOK
  NoOrphanedFormClient
  ErasureLeavesNothing
  ListsAgree
  NothingBorrowed
  ValuesSurvive
  IndexFollowsEmail
  PapersAreSeen
  FamilyHolds
PROPERTIES
  PortalRespectsLocks
  HoldsYieldToListedOnly
  RotationKeepsValues
CHECK_DEADLOCK FALSE
