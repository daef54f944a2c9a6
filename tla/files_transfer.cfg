SPECIFICATION FairSpec
CONSTANTS
  Workers = {w1, w2}
  ItemCount = 1
  EntryCount = 3
  Tree = TRUE
  Controls = {"pause", "cancel", "resume"}
  KeeperFails = TRUE
  Outcomes = {"success", "failed", "uncertain", "raise"}
  MaxFaults = 1
  MaxControls = 2
INVARIANTS TransferTypeOK OneCallPerEntry SuccessIsProven ExclusionUnlessLatePause
PROPERTIES KeepsLedger Settles
\* operators need not act, and an ended transfer stays ended
CHECK_DEADLOCK FALSE
