SPECIFICATION Spec
CONSTANTS
  Callers = {"video", "reload"}
  SizeMod = 4
  OutSize = 2
  MaxChunks = 1
  MaxReadErrors = 1
  MaxAddrs = 2
  MaxRelays = 1
  DeviceTypes = {"WIFI", "MDNS", "ADB", "IOS"}
  DevicesLimit = 2
  Parallel = 2
  Variants = 1
  Base = 10
  Stride = 3
  Width = 1
  MaxReport = 3
  MaxReloads = 2
INVARIANTS
  DeviceKept
  
  DescriptorsAccounted
  ConnectAnswer
  CommandsCleanedUp
PROPERTIES
  AttemptReturns
  
