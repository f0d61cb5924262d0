SPECIFICATION Spec
CONSTANTS
  None = None
  Instances <- Both
INVARIANTS
  ListsAreWhole
PROPERTIES
  
  
  OnlyClearingLosesRecords
  OnlyEmptySectionsAreForgotten
  OnlyIdleTogglesKeepTheIndicator
\* Nothing is followed past a trap or a table out of step with its source.
CHECK_DEADLOCK FALSE
