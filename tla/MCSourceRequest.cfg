SPECIFICATION Spec
CONSTANTS
  Formats = {"AVC"}
  Nals = {5}
  CatchupLimit = 1
  MaxFrames = 1
  TornReads = FALSE
  Sizes = {1, 2}
  ConfigSize = 1
  MaxConnects = 2
INVARIANTS
  RequestAsConfigured
