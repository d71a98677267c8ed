SPECIFICATION PredictSpec
CONSTANTS
  Narrow = {0}
  Wide = {1, 2}
  StopWords <- TheStopWords
  Samples <- MixedSamples
  Missing = Missing
  Stray <- OneStray
  TopKs = {2, 4}
  SizeT = 256
  MaxLines = 5
  FeatureFile <- TheFeatures
  MaxLoaded = 4
  Junk <- TheJunk
  Models <- TheModels
  max_nr_attr = 4
  MaxBatches = 2
  Directories <- TheDirectories
INVARIANTS  TopByFrequency FeaturesInSamples BatchCounted
