SPECIFICATION Spec
CONSTANTS
  Formats = {"AVC", "HEVC", "MJPG"}
  Nals = {1, 19}
  CatchupLimit = 1
  MaxFrames = 4
  TornReads = FALSE
  Sizes = {1}
  ConfigSize = 1
  MaxConnects = 1
INVARIANTS
  QueueBounded
PROPERTIES
  FeedOrder
