SPECIFICATION Spec
CONSTANTS
  MaxLocals = 3
  MaxNodes = 24
  MaxDepth = 8
  CodeSize = 165
  Disp8 = 3
  Word = 3
  Names = {"a", "b", "c", "d"}
  Programs <- MCPrograms
  Texts <- MCTexts
  MaxFile = 160
  Garbage <- MCGarbage
  MaxRounds = 8
  MaxOutput = 4
INVARIANTS
  RunsAsWritten
  FrameKept
  AcceptsOnlyPrograms
CHECK_DEADLOCK FALSE
