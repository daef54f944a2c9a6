SPECIFICATION Spec
CONSTANTS
  Tasks = {t1}
  Workers = {w1}
  Sources = {s1, s2}
  Capacity = 1
  RequestedControls = {"pause", "cancel"}
  EffectOutcomes = {"none", "verified", "unknown"}
  LeasesLapse = TRUE
  WritesFail = TRUE
  Crashes = FALSE
  MaxGeneration = 7
  MaxRounds = 6
  MaxRevision = 2
  MaxAttempts = 2
SYMMETRY Symmetric
INVARIANTS NeverRepeatsAnEffect EffectIsAccounted SlotCoversWork 
PROPERTIES SettledUnlessLatePause KeepsEffectLedger
\* operators need not act, and bounded rounds come to an end
CHECK_DEADLOCK FALSE
