SPECIFICATION Spec
CONSTANTS
  Tasks = {t1}
  Workers = {w1, w2}
  Sources = {s1}
  Capacity = 1
  RequestedControls = {"pause", "cancel"}
  EffectOutcomes = {"none", "verified", "unknown"}
  LeasesLapse = TRUE
  WritesFail = TRUE
  Crashes = TRUE
  MaxGeneration = 5
  MaxRounds = 4
  MaxRevision = 2
  MaxAttempts = 2
SYMMETRY Symmetric
INVARIANTS TypeOK OneOrganizer
PROPERTIES CancelIsFinal KernelSpec
\* operators need not act, and bounded rounds come to an end
CHECK_DEADLOCK FALSE
