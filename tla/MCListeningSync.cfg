SPECIFICATION Spec
CONSTANTS
  phone = phone
  tablet = tablet
  Device <- Devices
  Instances <- SomeInstances
SYMMETRY DeviceSymmetry
INVARIANTS
  
  PositionsAreSaved

  
\* Everything the bounds allow has happened: the devices are quiet.
CHECK_DEADLOCK FALSE
