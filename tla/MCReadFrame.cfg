SPECIFICATION FairSpec
CONSTANTS
  HeaderSize = 2
  MaxConfig = 2
  MaxPacket = 3
  Lens = {0, 1, 2, 3, 4}
  MaxMessages = 4
INVARIANTS
  FramesIntact
  
PROPERTIES
  FramesArrive
