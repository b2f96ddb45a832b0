SPECIFICATION Spec
CONSTANTS
  Serials = {"0001D7", "INT01"}
  Home <- MCHome
  Prefix <- MCPrefix
  Numbered <- MCNumbered
  Contains <- MCContains
  Begins <- MCBegins
  Enabled = {"HmIP-RF", "VirtualDevices"}
  Handlers = {"thermostat", "lamp", "group"}
  Configured <- MCConfigured
  Kind <- MCKind
  MaxUnderway = 2
INVARIANT
  RequestsReachTheirDevice
  OneInterfacePerDevice
  WritesComeBack
