SPECIFICATION FairSpec
CONSTANTS
  Passes = {pass1, pass2}
  Scopes <- MCScopes
  Total = 2
  Offered <- MCOffered
  MaxEdits = 1
  Loops = {loop1, loop2}
  Cycles <- MCCycles
  MaxBlips = 1
  Horizon <- MCShortHorizon
  Dates = {4}
  MaxChanges = 0
  Names = {"photo"}
  Workers = {worker1}
  Makers = {maker1}
  LastSecond = 0
PROPERTIES
  StaleCasesAreChased
CHECK_DEADLOCK FALSE
