CONSTANTS
  NumSub = 4
  Energies <- MCEnergies
  StepDb = 10
  NoiseRank = 1
  SnrThreshold = 8
  HaveSigMax = 5
  HaveSigThd = 3
  NoSigThd = 1
  NeighborRange = 1
  MaxWindows = 5
  Size = 5
  Values <- MCValues

SPECIFICATION MCSpec
INVARIANTS
  NoAdjacentSignals
  ReportedOnceDebtIsPaid
  RankSelected
PROPERTY
  ReportsFollowEvidence
CHECK_DEADLOCK FALSE
