CONSTANTS
  Channel = {c1}
  Service = {s1}
  SubCh = {b1, b2}
  Addr = {a1, a2}
  None = None
  MaxEvents = 2
SPECIFICATION Spec
INVARIANT RestartedWhereItIs
SYMMETRY Symmetry
CHECK_DEADLOCK FALSE
