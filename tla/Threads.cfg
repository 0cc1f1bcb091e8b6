SPECIFICATION FairSpec
CONSTANTS
  MAX_THREADS = 3
  THREAD_QUANTUM_TICKS = 2
  MaxNest = 2
INVARIANTS
  SchedulerSound
  NoLostWakeup
  PreemptionLock
  SlotReserved
PROPERTIES
  NoStarvation
  DeliversWakes
