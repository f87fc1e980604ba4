SPECIFICATION Spec
CONSTANTS
  t1 = t1  t2 = t2  w1 = w1  w2 = w2  ablation = ablation
  Talks <- TwoTalks
  VIDS <- BothTalks
  Framed <- Framing
  Pipeline <- TwoWorkers
  Ablation = ablation
  MaxRuns = 2
  MaxCuts = 2
  MaxFaults = 1
SYMMETRY WorkerSymmetry
CHECK_DEADLOCK FALSE
INVARIANTS
  AlignedIsComplete
  EmbeddingIsDue
PROPERTY BaselineKept
