SPECIFICATION Spec
CONSTANTS
  None = None
  Key <- Keys
  Instances <- SplitInstances
PROPERTIES
  MergesKeepTheNewest
CHECK_DEADLOCK FALSE
