SPECIFICATION Spec
CONSTANTS
  Items <- MCItems
  KindOf <- MCKindOf
  Hosts <- MCHosts
  Identities <- MCIdentities
  Others <- MCOthers
  Saved <- MCSaved
  Backups <- MCBackups
  MaxBlocks = 2
  MaxCalls = 2
  MaxEdits = 2
INVARIANTS TypeOK StagedIsShown
PROPERTIES OthersRoundTrip NothingVanishes ImportLandsWhole OneBridgeEach SettingsStayCommon SpinnerEnds
