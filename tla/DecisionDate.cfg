SPECIFICATION Spec
CONSTANTS
  NumCases = 1
  NumTasks = 0
  Clerks = {clerk1}
  MaxArchives = 1
  Staff = {staff1}
  MaxSaves = 2
  MaxWrites = 1
  Companies = {employerA}
  Documents = {document}
  Readers = {reader1}
  Offered = {"confirmed"}
  NoCompany = NoCompany
  Form = Form
  NumDossiers = 1
  Sheets = {sheet1}
  Scanners = {scanner1}
  NumFiles = 1
  Months = {month}
  Slots = {"rental"}
  MaxTries = 1
  Blank = Blank
  FirstMonth <- MCDecember
  NumMonths = 1
  DaysSeen = {17}
  Papers = {}
PROPERTY
  DecisionDateIsKnown
CHECK_DEADLOCK FALSE
