CONSTANTS
  Channel = {c1, c2}
  FmFrequency = {f1, f2}
  BufferSize = 2
SPECIFICATION Spec
INVARIANT SingleReader
CHECK_DEADLOCK FALSE
