SPECIFICATION Spec
CONSTANTS
  Processes = {p, q}
  Keys = {1, 2}
  Values = {x, y}
  NoValue = NoValue
  NoKey = NoKey
  Default = Default
  Missing = Missing
  Torn = Torn
SYMMETRY ProcessSymmetry
INVARIANT AssertionsHold
