SPECIFICATION FairSpec
CONSTANTS
  query = query  sub1 = sub1  sub2 = sub2  rewrite = rewrite  none = none
  qwen = qwen  qwenSmall = qwenSmall  deepseek = deepseek
  Query = query
  None = none
  Rewrites = {rewrite}
  SubQueries <- Decompositions
  Candidates <- Models
  Family <- Vendors
  Confidences <- Scores
  Threshold = 6
INVARIANTS
  SpansTellThePath
  EvidenceIsCurrent
  TraceMatchesSpans
PROPERTY Terminates
