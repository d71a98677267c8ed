\* Two threads under fair scheduling, constructors that succeed, and callers
\* that are through with get() when Finalize begins.
SPECIFICATION FairSpec
CONSTANTS
  t1 = t1
  t2 = t2
  t3 = t3
  a = a
  b = b
  Threads <- TwoThreads
  Closers <- OneCloser
  Classes <- TwoClasses
  Failing <- NoneFails
  MaxFinalizers = 2
  Apart = TRUE
  Last = TRUE
INVARIANT NoFault
PROPERTY CallsReturn
