\* Three threads, two types of which one may fail to construct; get() is
\* allowed after Finalize, and then stops the process at the null mutex.  A
\* constructor that throws strands the other callers in the busy loop.
SPECIFICATION Spec
CONSTANTS
  t1 = t1
  t2 = t2
  t3 = t3
  a = a
  b = b
  Threads <- ThreeThreads
  Closers <- OneCloser
  Classes <- TwoClasses
  Failing <- OneFails
  MaxFinalizers = 2
  Apart = TRUE
  Last = FALSE
INVARIANTS IInv OneRunner HeldIsLive NothingLeaks ReverseTeardown
PROPERTY SharedSpec
CHECK_DEADLOCK FALSE
