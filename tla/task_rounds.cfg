SPECIFICATION Spec
CONSTANTS
  Tasks = {t1}
  Workers = {w1}
  Sources = {s1, s2}
  Capacity = 1
  RequestedControls = {"cancel"}
  EffectOutcomes = {"none", "verified", "unknown"}
  LeasesLapse = FALSE
  WritesFail = FALSE
  Crashes = FALSE
  MaxGeneration = 12
  MaxRounds = 6
  MaxRevision = 2
  MaxAttempts = 3
SYMMETRY Symmetric
INVARIANTS CompletedLeavesNothingOpen HonestResults
\* operators need not act, and bounded rounds come to an end
CHECK_DEADLOCK FALSE
