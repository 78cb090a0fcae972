CONSTANTS
  Channel = {c1, c2}
  Service = {s1}
  SubCh = {b1}
  Addr = {a1}
  None = None
  MaxEvents = 2
SPECIFICATION Spec
INVARIANT RememberedFits
SYMMETRY Symmetry
CHECK_DEADLOCK FALSE
