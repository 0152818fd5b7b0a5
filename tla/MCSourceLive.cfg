SPECIFICATION FairSpec
CONSTANTS
  Formats = {"AVC", "MJPG"}
  Nals = {5}
  CatchupLimit = 1
  MaxFrames = 2
  TornReads = TRUE
  Sizes = {1}
  ConfigSize = 1
  MaxConnects = 2
PROPERTIES
  ReleaseTerminates
  Reconnects
  StopCompletes
