SPECIFICATION FairSpec
CONSTANTS
  v1 = v1  v2 = v2  s1 = s1  s2 = s2  w1 = w1  w2 = w2  w3 = w3
  whole = whole
  Whole = whole
  MaxVersion = 2
  Videos <- TwoVideos
  Spans <- OneSpan
  Cut <- TwoCut
  CaptionsOk <- TwoCaptions
  Visual <- OneVideo
  Workers <- TwoWorkers
  MaxReconciles = 2
  MaxAborts = 1
PROPERTY PendingIsServed
