SPECIFICATION Spec
CONSTANTS
  e1 = e1  e2 = e2  g1 = g1  v1 = v1  s1 = s1  s2 = s2  nightly = nightly
  x1 = x1  x2 = x2
  Embedders <- TwoEmbedders
  Generators <- OneGenerator
  Visuals <- OneVisual
  Sweepers <- TwoSweepers
  Casts <- Together
  SweepId <- SameSweep
  Examples <- TwoExamples
  Measured <- Measurements
  GeneratorIds <- TwoGenerators
  TieBreakPp = 3
CHECK_DEADLOCK FALSE
INVARIANTS
  RunsAreWhole
  LockedByRule
  SweepRows
PROPERTY WinnerAdvances
