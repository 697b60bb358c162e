CONSTANTS
  NoIndex <- MCNoIndex
  Programs <- AllPrograms
  MaximumDepth = 4
  MaximumRounds = 64
SPECIFICATION Spec
INVARIANTS FailuresFollowCalls Settles SameFailuresSameType
