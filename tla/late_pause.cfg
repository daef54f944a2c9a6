SPECIFICATION Spec
CONSTANTS
  Tasks = {t1}
  Workers = {w1}
  Sources = {s1, s2}
  Capacity = 1
  RequestedControls = {"pause"}
  EffectOutcomes = {"none", "verified"}
  LeasesLapse = FALSE
  WritesFail = FALSE
  Crashes = FALSE
  MaxGeneration = 7
  MaxRounds = 6
  MaxRevision = 2
  MaxAttempts = 2

PROPERTIES SettledIsFinal
\* operators need not act, and bounded rounds come to an end
CHECK_DEADLOCK FALSE
