CONSTANTS
  Bytes = {0, 1, 2}
  MaxBuffer = 8
SPECIFICATION AnnexBSpec
INVARIANTS SplitIsAnnexB MarkerOnLast
PROPERTIES SplitEnds
