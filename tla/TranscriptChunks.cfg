SPECIFICATION FileSpec
CONSTANTS
  number = number  sentence = sentence  across = across
  NoLine = NoLine
  WordsOf <- LineWords
  Numbers <- OneNumber
  Screens <- SomeScreens
  Transcripts <- CueSeqs
  WINDOW_SEC = 3
  OVERLAP_SEC = 1
  MAX_TRIM_WORDS = 1
  TARGET_SEC = 3
  MAX_TOKENS = 4
CHECK_DEADLOCK FALSE
INVARIANTS
  WindowsCover
  SentencesPartition
  ChunkRows
  SaidOnce
