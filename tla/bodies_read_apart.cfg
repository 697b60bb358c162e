CONSTANTS
  Types <- MCTypes
  Containers <- MCContainers
  Functions <- MCFunctions
  Imports <- MCImports
  Capitalised <- MCCapitalised
  Underscored <- MCUnderscored
  StructNames <- MCStructNames
  TypeNames <- MCTypeNames
  Bodies <- MCBodies
  MaximumTurns = 2
  ReportedOn <- MCReportedOn
  Spelling <- MCSpelling
  Length = 3
  Reports <- MCReports
  Given <- MCGiven
SPECIFICATION SpecCompiled
INVARIANT NothingReadsApart
