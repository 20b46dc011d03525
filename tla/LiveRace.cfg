CONSTANTS
  c1 = c1
  Clients = {c1, c2}
  NoClient = nobody
  Ports = {5004}
  Cfgs = {1}
  KeyKinds = {"idr"}
  Watched <- MCWatched
  MaxFaults = 0
SPECIFICATION LiveSpec
INVARIANTS SetsReachClient
