CONSTANTS
  s1 = s1
  s2 = s2
  c1 = c1
  c2 = c2
  p = p
  A = A
  A1 = A1
  B = B
  None = None
  SId = {s1, s2}
  SubCh = {c1, c2}
  Slots = 3
  Asked = {A}
  Named <- MCNamed
  OnAir <- MCOnAir
SPECIFICATION Spec
PROPERTY HealthyKept
VIEW View
