SPECIFICATION Spec
CONSTANTS
  Items <- MCItems
  KindOf <- MCKindOf
  Hosts <- MCHosts
  Identities <- MCIdentities
  Others <- MCOthers
  Saved <- MCSaved
  Backups <- MCBackups
  MaxBlocks = 3
  MaxCalls = 1
  MaxEdits = 2

PROPERTY ImportKeeps
