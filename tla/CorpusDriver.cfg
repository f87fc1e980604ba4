SPECIFICATION Spec
CONSTANTS
  t1 = t1  t2 = t2  t3 = t3  c1 = c1  c2 = c2  m1 = m1  m2 = m2
  Movies <- TwoMovies
  Talks <- ThreeTalks
  Corpora <- TwoCorpora
  CorpusOf <- Mixed
  Visual <- TwoTalks
  MovieOf <- MixedMovies
  Gold <- FirstIsGold
  Empty <- ThirdIsEmpty
  MaxRuns = 3
CHECK_DEADLOCK FALSE
INVARIANTS
  ZeroMeansDone
  PendingIsQueued
