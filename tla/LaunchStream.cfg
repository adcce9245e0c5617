SPECIFICATION Spec
CONSTANTS
  MaxOut = 2
  MaxErr = 1
  Capacity = 1
  MaxBeats = 1
  Requests <- MCRequests
INVARIANT TypeOK
INVARIANT WithheldUntilRecorded
INVARIANT InReceiptOrder
INVARIANT AttestsTheWhole
INVARIANT ConcludesOnAllEvidence
PROPERTY Ends
CHECK_DEADLOCK FALSE
