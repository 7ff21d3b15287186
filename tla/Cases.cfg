SPECIFICATION FairSpec
CONSTANTS
  NumCases = 2
  NumTasks = 1
  Clerks = {clerk1, clerk2}
  MaxArchives = 2
  Staff = {staff1, staff2}
  MaxSaves = 2
  MaxWrites = 1
  Companies = {employerA, employerB}
  Documents = {document}
  Readers = {reader1, reader2}
  Offered = {"confirmed", "deferred"}
  NoCompany = NoCompany
  Form = Form
  NumDossiers = 2
  Sheets = {sheet1, sheet2}
  Scanners = {scanner1, scanner2}
  NumFiles = 2
  Months = {month}
  Slots = {"rca", "history", "passport", "rental", "company", "wezwanie"}
  MaxTries = 2
  Blank = Blank
  FirstMonth <- MCDecember
  NumMonths = 4
  DaysSeen = {16, 17}
  Papers <- MCZusPapers
INVARIANTS
  TypeOK
  FlagsMatchBatches
  FormsNeverOverwriteForms
  OneDecisionPerEmployer
  ViewsAgree
  MissingIsExact
PROPERTIES
  ImplementsAtomicArchive
  ForwardStepsHaveTheirDates
  ArchiveRequestsEnd
  StaffEntriesStand
  MonthsAreTrue
CHECK_DEADLOCK FALSE
