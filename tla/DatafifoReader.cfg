CONSTANTS
  RingSizes = {2, 3}
  Entries = 2
  MaxSeq = 3
  MaxRestarts = 1
  MaxFaults = 1
SPECIFICATION ReaderSpec
INVARIANTS NeverReplays
PROPERTIES ImplementsLease DropsOnlyRestarted WriterNeverStarves BacklogIsFinal
