SPECIFICATION Spec
CONSTANTS
  t1 = t1  t2 = t2  t3 = t3  c1 = c1  m1 = m1  m2 = m2
  Talks <- ThreeTalks
  Movies <- TwoMovies
  MovieOf <- Sources
  PathOrder <- ByPath
  Chapters <- TwoChapters
  EndOf <- Ends
  Listings <- AllListed
  SAFETY_PAD_SEC = 1
  Whole = 5
  MaxFetches = 2
  Corpora <- OneCorpus
  CorpusOf <- AllOfIt
  Visual <- TwoVisual
  Gold <- NoTalks
  Empty <- ThreeTalks
  MaxRuns = 1
CHECK_DEADLOCK FALSE
INVARIANT ZeroMeansFetched
PROPERTIES
  ImplementsDriver
  WholeSource
