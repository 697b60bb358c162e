CONSTANTS
  NoIndex <- MCNoIndex
  CallTables <- MCCallTables
  Inputs <- MCInputs
  Programs <- MCPrograms
  MaxGeneration = 3
  TableSet <- MCTableSet
  FactSets <- AllFacts
SPECIFICATION SpecAnalysis
INVARIANT ContradictionLowersConfidence
