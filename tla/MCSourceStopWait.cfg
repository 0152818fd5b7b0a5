SPECIFICATION Spec
CONSTANTS
  Formats = {"AVC"}
  Nals = {5}
  CatchupLimit = 1
  MaxFrames = 1
  TornReads = FALSE
  Sizes = {1}
  ConfigSize = 1
  MaxConnects = 1
INVARIANTS
  WaitedForDecodeThread
