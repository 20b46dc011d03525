CONSTANTS
  Clients = {c1, c2}
  NoClient = nobody
  Ports = {5004}
  Files <- MCFiles
  SeqMod = 4
  TsMod = 3
  MaxFaults = 2
SPECIFICATION FileSpec
INVARIANTS NoLostWakeup LateAtMostOnce StallsAtShortNalu
PROPERTIES WireIsWellFormed KeepsStreaming
