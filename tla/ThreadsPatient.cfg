CONSTANTS
  Channel = {c1, c2}
  FmFrequency = {f1, f2}
  BufferSize = 2
SPECIFICATION PatientSpec
INVARIANTS
  SingleReader
  PromisedSamples
  NoStaleSamples
  OwnThreads
PROPERTY HandlersReturn
CHECK_DEADLOCK FALSE
