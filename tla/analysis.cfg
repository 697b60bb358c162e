CONSTANTS
  NoIndex <- MCNoIndex
  CallTables <- MCCallTables
  Inputs <- MCInputs
  Programs <- MCPrograms
  MaxGeneration = 3
  TableSet <- MCTableSet
  FactSets <- AllFacts
SPECIFICATION SpecAnalysis
INVARIANTS
  TypedProvenance
  LeastSolution
  SoundEvidence
  Converges
  AnswersReachability
  GraphIsTheCalls
  WritesInsideBucket
  StableGroups
  EvidenceTiles
  VerdictsFollowFacts
  ConfidenceFollowsFacts
  EvidenceIsTheFacts
PROPERTIES
  RefinesChaotic
  EveryQuestionAnswered
