SPECIFICATION Spec
CONSTANTS
  a = a
  b = b
  pa = pa
  pb = pb
  NoFile = NoFile
  Url <- Urls
  Path <- Paths
  Instances <- OneDownload
INVARIANTS
  RemovedStaysRemoved
