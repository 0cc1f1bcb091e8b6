SPECIFICATION FairSpec
CONSTANTS
  EVENT_QUEUE_SIZE = 2
  Keys = {"LSHIFT", "RSHIFT", "RCTRL", "LEFT"}
  Reports <- MCReports
  SCREEN_W = 4
  SCREEN_H = 3
  MaxGestures <- MCGestures
  MaxLost = 1
INVARIANTS
  InSync
  NoSleepOnEvent
  CaughtUp
  ModifiersHonest
  OneLossOnePacket
PROPERTY DeliversEvents
