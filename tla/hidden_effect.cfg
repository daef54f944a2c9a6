SPECIFICATION Spec
CONSTANTS
  Tasks = {t1}
  Workers = {w1}
  Sources = {s1, s2}
  Capacity = 1
  RequestedControls = {}
  EffectOutcomes = {"none", "verified"}
  LeasesLapse = TRUE
  WritesFail = FALSE
  Crashes = FALSE
  MaxGeneration = 7
  MaxRounds = 6
  MaxRevision = 2
  MaxAttempts = 2

INVARIANTS HonestResults
\* operators need not act, and bounded rounds come to an end
CHECK_DEADLOCK FALSE
