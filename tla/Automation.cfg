SPECIFICATION FairSpec
CONSTANTS
  Passes = {pass1, pass2}
  Scopes <- MCScopes
  Total = 2
  Offered <- MCOffered
  MaxEdits = 3
  Loops = {loop1, loop2}
  Cycles <- MCCycles
  MaxBlips = 1
  Horizon <- MCHorizon
  Dates = {4, 16}
  MaxChanges = 2
  Names = {"photo", "photo_1"}
  Workers = {worker1, worker2}
  Makers = {maker1, maker2}
  LastSecond = 1
INVARIANTS
  TypeOK
  RemindersMatchDebts
  OneLegalStayReminder
  OneLoopPerTask
  GuardedWorkRunsOnce
  NewsGetsOut
  FilesAreKept
PROPERTIES
  DebtsAreChased
  DeadLoopsAreNoticed
