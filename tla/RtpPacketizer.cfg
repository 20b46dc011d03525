CONSTANTS
  MaxPayload = 6
  FuHeader = 3
  SeqMod = 3
  MaxLen = 13
  HeaderBytes = {1, 38, 64, 66, 129, 255}
SPECIFICATION PacketizerSpec
INVARIANTS FragmentsTile CompleteIffSucceeded SeqHasNoGap HeaderSurvives
