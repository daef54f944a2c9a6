SPECIFICATION RevisionSpec
CONSTANTS
  Principals = {"p", "q"}
  Contents = {"off", "on", "wide"}
  MaxRevisions = 3
  MaxVersion = 2
  MaxPermissions = 1
INVARIANTS RevisionTypeOK
PROPERTIES NoLostPublication PublishesInOrder
\* publishers need not act
CHECK_DEADLOCK FALSE
