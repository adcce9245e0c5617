SPECIFICATION Spec
CONSTANTS
  i1 = i1
  Invocation = {i1}
  MaxKey = 3
  MaxWrites = 3
  MaxTurns = 1
  Edits = FALSE
  Withdraws = FALSE
  None = None
INVARIANTS TypeOK  NothingSkipped
CHECK_DEADLOCK FALSE
