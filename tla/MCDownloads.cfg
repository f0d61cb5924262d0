SPECIFICATION Spec
CONSTANTS
  a = a
  b = b
  pa = pa
  pb = pb
  NoFile = NoFile
  Url <- Urls
  Path <- Paths
  Instances <- SomeInstances
INVARIANTS
  NoPhantomTransfer
  DuplicatesNeedACause
  
PROPERTIES
  
  ArrivalIsAnnounced
  StoredFilesStay
