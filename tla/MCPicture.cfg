SPECIFICATION Spec
CONSTANTS
  Formats = {"AVC", "HEVC", "MJPG"}
  PixFmts = {"YUV420P", "YUVJ420P", "NV12", "P010LE", "RGB24"}
  Sizes = {1, 2}
INVARIANTS
  FormatTrue
  
  SizesAgree
  ObjectsFreed
