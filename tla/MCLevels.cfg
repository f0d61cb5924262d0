SPECIFICATION Spec
CONSTANTS
  None = None
  Key <- Keys
  Instances <- SomeInstances
INVARIANTS
  LevelsAreOrdered
  ReadsAreRight
PROPERTIES
  OnlyFilledGapsOverlap
  MergesKeepTheNewest
\* Everything the bounds allow has happened.
CHECK_DEADLOCK FALSE
