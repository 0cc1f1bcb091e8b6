SPECIFICATION Spec
CONSTANTS
  Windows = {w1, w2, w3}
  NoWindow = NoWindow
  MAX_WINDOWS = 2
  Apps = {"program_manager", "terminal", "calculator", "info", "file_manager", "text_editor"}
  Lossy = TRUE
INVARIANTS
  TableConsistent
  NoDanglingPointer
  FocusOnTop
  ScreenCurrent
  DragHeld
PROPERTIES
  FocusHandedOver
SYMMETRY AddressSymmetry
