CONSTANTS
  Ports = {5000, 6000}
  NoPort = 0
  File <- MCFile
  Frames <- MCFrames
  RingSize = 2
  Entries = 2
  TsMod = 4
  MaxFaults = 2
SPECIFICATION EarlierSpec
INVARIANTS FileOutlivesUse
PROPERTIES ImplementsLease FramesKeepApart ServesPlayer
CHECK_DEADLOCK FALSE
