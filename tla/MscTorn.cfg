CONSTANTS
  FirstMsc = 1
  BlocksPerCif = 2
  CifsPerFrame = 2
  Frames = 2
  Depth = 1
  Service = {s1}
  SubCh = {c1}
  Garbage = Garbage
SPECIFICATION MscSpec
PROPERTY BufferIsQueue
