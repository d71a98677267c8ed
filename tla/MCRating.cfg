SPECIFICATION Spec
CONSTANTS
  Threads = {t1, t2}
  Blocks = {m1, m2, m3}
  Null = Null
  NoText = NoText
  Loaded = 4
  Weight <- TheWeights
  InitialSize = 4
  MaxRequests = 2
SYMMETRY HeapSymmetry
INVARIANTS AnswerOfText BlocksOfRequests
