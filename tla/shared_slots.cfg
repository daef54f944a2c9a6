SPECIFICATION FairSpec
CONSTANTS
  Tasks = {t1, t2}
  Workers = {w1, w2}
  Sources = {s1}
  Capacity = 1
  RequestedControls = {}
  EffectOutcomes = {"none", "verified", "unknown"}
  LeasesLapse = FALSE
  WritesFail = FALSE
  Crashes = FALSE
  MaxGeneration = 12
  MaxRounds = 6
  MaxRevision = 2
  MaxAttempts = 2

INVARIANTS CapacityBound
PROPERTIES SlotsComeBack
\* operators need not act, and bounded rounds come to an end
CHECK_DEADLOCK FALSE
