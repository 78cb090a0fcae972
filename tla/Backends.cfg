CONSTANTS
  o1 = o1
  o2 = o2
  o3 = o3
  p1 = p1
  p2 = p2
  dir = dir
  l1 = l1
  l2 = l2
  l3 = l3
  s1 = s1
  s2 = s2
  None = None
  Object <- MCObject
  DirObject <- MCDirObject
  Directory <- MCDirectory
  NumSegments <- MCNumSegments
  Listed <- MCListed
  TableSize = 2
  Carousel <- MCCarousel
  Label = {l1, l2, l3}
  ShortLabel = {s1, s2}
  Characters <- MCCharacters
  GroupUnits <- MCGroupUnits
  SlideObject = {o1, o2}
  Parts = 5
  Units = 4
  MaxLosses = 2
  SymSize = 3
  GfPoly = {0, 1, 3}
  NRoots = 4
  CutLen = 1
  RSDims = 2
  Base = {0, 5}
  Messages <- MCMessages
  FirstMsc = 1
  BlocksPerCif = 2
  CifsPerFrame = 1
  Frames = 1
  Depth = 1
  Service = {t1}
  SubCh = {c1}
  Garbage = Garbage
SPECIFICATION MCSpec
INVARIANTS
  TypeOK
  FramesWhole
  LabelsShown
  ObjectsWhole
  GroupsArrive
  Corrected
  BitsInPlace
  SlotAccounting
  FeedIsStable
PROPERTIES
  Collected
  BlocksAreHandled
  StopTerminates
CHECK_DEADLOCK FALSE
