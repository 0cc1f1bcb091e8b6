SPECIFICATION Spec
CONSTANTS
  EDITBUF_CAPACITY = 4
  Printable = {"a"}
  Documents <- MCDocuments
  TE_COLS = 2
  TE_ROWS = 2
  TERMINAL_COLS = 4
  TERMINAL_ROWS = 2
  TERMINAL_MAX_LINE = 3
  TERMINAL_HISTORY_N = 2
  Banner <- MCBanner
  Typed = {"a", " "}
  Prompts <- MCPrompts
  Outputs <- MCOutputs
  MaxEntered = 3
INVARIANTS
  PageShowsText
  ScreenShowsLine
  HistoryRecalls
PROPERTY ImplementsLines
