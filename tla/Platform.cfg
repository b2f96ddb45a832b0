SPECIFICATION Spec
CONSTANTS
  Ids <- MCIds
  Subtypes <- MCSubtypes
  Configs <- MCConfigs
INVARIANTS
  CacheMirrorsHomebridge
  LoopIsComplete
  ShutdownDisposes
PROPERTY
  ConfiguredAccessoriesStay
