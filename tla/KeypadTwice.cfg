CONSTANTS
  Text = {n1}
  NoText = NoText
  Preset = {p1, p2}
  Colon = {p2}
  Kilo = 2
  Ten = 3
  Word = 18
  fmLow = 3
  fmHigh = 4
  fmDefault = 3
  FmStep = 1
  DabFrequency = {10}
  MaxRows = 1
  MaxForms = 2
  MaxWires = 2
SPECIFICATION FavouritesSpec
PROPERTY ButtonToggles
VIEW FavouritesView
