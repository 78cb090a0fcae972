CONSTANTS
  Channel = {c1, c2}
  Service = {s1, s2}
  SubCh = {b1, b2}
  Addr = {a1}
  None = None
  MaxEvents = 2
  Text = {n1}
  NoText = NoText
  Preset = {p1, p2}
  Colon = {p2}
  Kilo = 2
  Ten = 3
  Word = 18
  fmLow = 3
  fmHigh = 4
  fmDefault = 3
  FmStep = 1
  DabFrequency = {10}
  MaxRows = 1
  MaxForms = 2
  MaxWires = 2
SPECIFICATION MCSpec
INVARIANTS
  OnlyCurrentDecoded
  PresetFits
  NoneStillValid
  ListIsOfChannel
PROPERTY NothingForgotten
SYMMETRY Symmetry
VIEW MCView
CHECK_DEADLOCK FALSE
