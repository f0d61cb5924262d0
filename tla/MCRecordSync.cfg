SPECIFICATION Spec
CONSTANTS
  phone = phone
  tablet = tablet
  p = p
  Device <- Devices
  Podcast <- Podcasts
  Instances <- SomeInstances

  
  
PROPERTIES
  OnlyReturnsTakeAPodcast
\* Everything the bounds allow has happened: the user does nothing more.
CHECK_DEADLOCK FALSE
