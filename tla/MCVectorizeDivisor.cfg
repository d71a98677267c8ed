SPECIFICATION Spec
CONSTANTS
  Narrow = {0}
  Wide = {1, 2}
  StopWords <- TheStopWords
  Samples <- PlainSamples
  Missing = Missing
  Stray <- TheStrays
  TopKs = {2, 4}
  SizeT = 256
  MaxLines = 4
  FeatureFile <- TheFeatures
  MaxLoaded = 4
  Junk <- TheJunk
INVARIANT DivisorPositive
