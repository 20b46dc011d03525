CONSTANTS
  ParamKinds = {"sps", "pps"}
  Cfgs = {1, 2}
  MaxFrames = 4
  MaxGop = 4
  MaxCacheFaults = 2
SPECIFICATION CacheSpec
INVARIANTS PlayableSnapshot GopIsConsistent
CHECK_DEADLOCK FALSE
