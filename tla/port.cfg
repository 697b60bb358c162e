CONSTANTS
  NoIndex = 99
  MaximumDepth = 3
  Programs <- MCPrograms
SPECIFICATION Spec
INVARIANTS WrittenAsReported ReturnsAreTied ConstructorIsTheInit DropFreesWhatItFreed NamesAreDeclared BodiesReadWhatIsPassed
CHECK_DEADLOCK FALSE
