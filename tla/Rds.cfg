CONSTANTS
  P = P
  Q = Q
  NoPi = NoPi
  Group <- MCGroup
  TypeB <- MCTypeB
  NoGroup <- MCNoGroup
  BitsPerBlock = 3
  PayloadBits = 2
  BerReset = 4
  MaxDamage = 1
  MaxImitations = 1
  NameSegments = 1
  NUM_OF_FRAGMENTS = 2
  T_null = 6
  T_g = 4
  T_u = 6
  nrBlocks = 5
  C_LEVEL_SIZE = 4
  EndMargin = 4
  Window = 3
  Level = 2
  MaxLevel = 3
  CarrierDiff = 10
  SearchRange = 4
  CoarseStep = 4
  Gain = 2
  MaxCoarse = 40
  Offset <- MCOffset
  WrongEstimate <- MCWrongEstimate
  NoEstimate = 100
  Lost = {2, 13}
  MaxDisturbances = 1
SPECIFICATION MCSpec
INVARIANTS
  LockedOnBlocks
  OneStation
  BlocksInPlace
PROPERTIES
  WholeGroups
  RdsRelocks
  SyncComesBack
  FrequencySettles
