SPECIFICATION Spec
CONSTANTS
  v1 = v1  v2 = v2  s1 = s1  s2 = s2  w1 = w1  w2 = w2  w3 = w3
  whole = whole
  Whole = whole
  MaxVersion = 2
  Videos <- OneVideo
  Spans <- TwoSpans
  Cut <- OneCut
  CaptionsOk <- OneCaptions
  Visual <- OneVideo
  Workers <- ThreeWorkers
  MaxReconciles = 3
  MaxAborts = 1
SYMMETRY WorkerSymmetry
INVARIANTS
  EmbedFresh
  NoLostWork
  NoOrphanMessage
  FannedOut
  ChunkedAsRecorded
  DoneMeansReady
  ClaimsAreExclusive
  NoWaitCycle
PROPERTIES
  RunOncePerRequest
  ImplementsJobs
