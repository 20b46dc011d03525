CONSTANTS
  PageSize = 4
  MaxPacks = 2
  MaxLen = 6
  Word = 16
  Messages <- MCMessages
  Bases = {0, 3, 6}
  MaxFaults = 2
SPECIFICATION PacksSpec
INVARIANTS AcceptsTheGood SeesWholePack NothingStaysMapped
