SPECIFICATION Spec
CONSTANTS
  None = None
  Instances <- FewChanges
INVARIANT
  RowsAreOfOneKind
CHECK_DEADLOCK FALSE
