SPECIFICATION Spec
CONSTANTS
  t1 = t1  t2 = t2  w1 = w1  w2 = w2  ablation = ablation
  Talks <- TwoTalks
  VIDS <- FirstTalk
  Framed <- Framing
  Pipeline <- TwoWorkers
  Ablation = ablation
  MaxRuns = 1
  MaxCuts = 1
  MaxFaults = 0
CHECK_DEADLOCK FALSE
INVARIANT AnswersUseBaseline
