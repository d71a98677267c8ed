SPECIFICATION FairSpec
CONSTANTS
  Connections = 2
  Managers = {m1, m2}
  NoManager = NoManager
  Only = m1
  Crowds <- TheCrowds
  MaxRequestSize = 1
  SendBuffer = 2
INVARIANTS BytesCounted AnswersInOrder NoFreedConnection
PROPERTIES ClosedWhenDone AllAnswered SilentReaped
