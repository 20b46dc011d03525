CONSTANTS
  Clients = {c1}
  Ports = {5000, 50}
  NoClient = none
  Kinds = {"OPTIONS", "SETUP", "SETUP_TCP", "PLAY", "TEARDOWN", "OTHER"}
  UdpPort = 5000
  FirstCSeq = 9
  MaxRequests = 2
  NoPort = 0
SPECIFICATION StreamSpec
INVARIANTS OkMeansDone DoneOnceInOrder SessionIsAsTold
PROPERTIES PatientIsAnswered
CHECK_DEADLOCK FALSE
