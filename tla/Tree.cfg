CONSTANTS
  Rank <- MCRank
  Catalogs = {1, 2, 3, 4}
  Count = 2
  FileNames <- MCFileNames
  Texts <- MCTexts
  Refusals <- MCRefusals
  Output <- MCOutput
  Absent = Absent
  Hand = Hand
  Altered = Altered
  Torn = Torn
  MaxEdits = 2
SPECIFICATION Spec
INVARIANTS
  RunSettles CheckIsExact RefusedWritesNothing HandWrittenStays
