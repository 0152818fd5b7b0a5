SPECIFICATION FairSpec
CONSTANTS
  Threads = {video, decode}
  Consumer = video
  Items = {p1, p2}
  Nobody = nobody
  Null = null
  MaxAdds = 4
INVARIANTS
  NoEmptyPop
PROPERTIES
  IsFifo
  Delivered
