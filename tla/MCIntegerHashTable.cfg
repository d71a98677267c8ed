SPECIFICATION Spec
CONSTANTS
  Keys = {0, 1, 2}
  Values = {x, y}
  Entries = 2
  MinNodes = 2
  MaxNodes = 8
  Absent = Absent
INVARIANTS Partition IterationComplete
PROPERTY MapSpec
