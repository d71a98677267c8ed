SPECIFICATION Spec
CONSTANTS
  Processes = {p, q}
  Keys = {1, 2}
  Values = {x, y}
  NoValue = NoValue
  NoKey = NoKey
  Default = Default
  Missing = Missing
  Torn = Torn
  Alphabet <- TheAlphabet
  Patterns <- ThePatterns
  MaxLength = 5
  Dictionaries <- TheDictionaries
  Rewritings <- TheRewritings
  Uninitialised = Uninitialised
  Fault = Fault
  stopWords_ <- TheStopTerms
  MaxTitle = 3
  max_w = 3
  Models <- TheModels
  TopNs = {1, 3}
  Letters = {x, y}
  Break = Break
  bytes_ = 4
  MaxFile = 8
SYMMETRY ProcessSymmetry
INVARIANTS SameFromCache ValuesMatch TornOnlyByCrash TextsRight LinesRead TokensCover
           TermsCompared 
