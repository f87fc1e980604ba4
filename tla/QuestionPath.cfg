SPECIFICATION Spec
CONSTANTS
  v1 = v1  v2 = v2  tree = tree  graph = graph  nosuch = nosuch
  NotJson = NotJson  NotObject = NotObject  NullContent = NullContent
  Unreadable = Unreadable  NoMatch = NoMatch
  RRF_K = 60
  MaxRank = 4
  Scale = 7624512
  FRAME_SAMPLE_EVERY_SEC = 2
  Backoff = 2
  PostTicks = 1
  K = 2
  P95Max = 4
  Asked <- Runs
  Searches <- Tables
  Frames <- AllFrames
  Patched <- SomePatched
  Confidences <- Levels
  Retries <- Budgets
  Replies <- SomeReplies
  JudgeReplies <- SomeVerdicts
  Questions <- AllQuestions
  Stored <- AllChunks
  Videos <- Talks
INVARIANTS
  FusedInOrder
  CitedIsGrounded
  ScoresAreEarned
  MeasuresAgree
PROPERTY ImplementsCall
