SPECIFICATION FairSpec
CONSTANTS
  v1 = v1  w1 = w1  w2 = w2
  Videos <- OneVideo
  MaxFrames = 2
  Unstable <- OneUnstable
  MaxVersion = 2
  Sampled <- Shrinking
  Workers <- TwoWorkers
  MaxRequests = 2
  MaxAborts = 1
INVARIANTS
  AuditTrail
  VisualIsCurrent
  NoLostWork
PROPERTY PendingIsServed
