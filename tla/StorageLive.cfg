SPECIFICATION StorageFairSpec
CONSTANTS
  MAX_THREADS = 3
  THREAD_QUANTUM_TICKS = 1
  MaxNest = 1
PROPERTIES
  SubmitReturns
