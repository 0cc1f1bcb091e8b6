SPECIFICATION Spec
CONSTANTS
  EVENT_QUEUE_SIZE = 2
  Keys = {"LSHIFT"}
  Reports = {}
  SCREEN_W = 4
  SCREEN_H = 3
  MaxGestures <- MCGestures
  MaxLost = 0
INVARIANT PopsFirst
