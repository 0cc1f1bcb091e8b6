SPECIFICATION StorageSpec
CONSTANTS
  MAX_THREADS = 4
  THREAD_QUANTUM_TICKS = 1
  MaxNest = 1
INVARIANTS
  ServedOnce
  NoRequestLost
  NothingLeaked
