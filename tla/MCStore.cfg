SPECIFICATION Spec
CONSTANTS
  t1 = t1
  t2 = t2
  r = r
  None = None
  Thread <- Threads
  Reader <- Readers
  Instances <- SomeInstances
  MaxWrites = 3
  MaxMem = 1
  Trigger = 1
  Stop = 2
INVARIANTS
  StoreIsSound
PROPERTIES
  
  TablesInUseStay
  CallsReturn
\* Everything the bounds allow has happened: the engine is quiet.
CHECK_DEADLOCK FALSE
