CONSTANTS
  NoIndex = 99
  MaximumDepth = 3
  Programs <- MCPrograms
SPECIFICATION Spec
INVARIANT ReportedIsWritten
CHECK_DEADLOCK FALSE
