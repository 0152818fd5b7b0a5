SPECIFICATION Spec
CONSTANTS
  Formats = {"AVC", "MJPG"}
  Nals = {1, 5}
  CatchupLimit = 1
  MaxFrames = 3
  TornReads = FALSE
  Sizes = {1, 2}
  ConfigSize = 1
  MaxConnects = 2
INVARIANTS
  TypeOK
  PacketsConserved
  NoSharedPacket
  DecoderKeptWhileHeld
  FrameNotShared
  FreshDecoder
  TeardownAlone
  NoSocketLeak
