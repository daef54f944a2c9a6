SPECIFICATION FairSpec
CONSTANTS
  Events = {e1}
  Hooks = {h1}
  Digests = {"old", "new"}
  Workers = {w1, w2}
  Answers = {"ok", "busy", "refused", "error"}
  MaxAttempts = 2
  BaseRetry = 1
  MaxRetry = 2
  Lease = 1
  MaxFaults = 1
  MaxEdits = 2
  MaxRecoveries = 1
INVARIANTS NeverRetargeted DeliveredIsFinalUnlessLate AttemptsAreBoundedUnlessLate
PROPERTIES Converges
\* every delivery at rest is the end of the behaviour
CHECK_DEADLOCK FALSE
