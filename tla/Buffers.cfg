CONSTANTS
  FirstMsc = 1
  BlocksPerCif = 2
  CifsPerFrame = 2
  Frames = 3
  Depth = 1
  Service = {s1, s2}
  SubCh = {c1}
  Garbage = Garbage
  Size = 4
  Amount = {1, 2, 5}
  Element = {l, r}
  Left = l
  Right = r
  Rate = {32, 48}
  Tenth <- MCTenth
  Eighth <- MCEighth
  InputLimit <- MCInput
  SoundFrame = 2
  Chunk = 1
  CardFrames = 1
  Room = 8
  FmRoom = 1
  MaxSignals = 1
SPECIFICATION MCSpec
INVARIANTS
  WholeCif
  SoundSides
PROPERTIES
  ContinuousFeed
  BufferIsQueue
  RingIsQueue
