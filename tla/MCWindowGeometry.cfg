SPECIFICATION GeometrySpec
CONSTANTS
  SCREEN_W = 6
  SCREEN_H = 7
  TASKBAR_HEIGHT = 1
  WINDOW_BORDER = 1
  WINDOW_TITLE_HEIGHT = 1
  WINDOW_BOX_SIZE = 1
  BOX_PAD = 0
  RESIZE_BORDER = 2
  KEEP = 2
  CASCADE = 1
  STEP = 2
  MaxWindows = 5
  MIN_W = 3
  MIN_H = 3
  ReleaseMayBeLost = FALSE
  Initial <- MCInitial
INVARIANTS
  GripOnDesktop
  TilesApart
PROPERTY RestoreReturns
