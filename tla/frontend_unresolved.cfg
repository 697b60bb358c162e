CONSTANTS
  Disks <- MCDisks
  Requests <- MCRequests
  Programs <- MCPrograms
  Precedes <- MCPrecedes
  Alias <- MCAlias
  MaximumModules = 4
  NoIndex = 255
  Sources <- NoSources
  Base = 4
  Magic <- MCMagic
  Version = 2
  FactFiles <- MCFactFiles
  Damages <- MCDamages
SPECIFICATION SpecIntake
INVARIANT UnresolvedImportsReachTheReport
