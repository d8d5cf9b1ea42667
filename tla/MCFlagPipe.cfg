SPECIFICATION AllSpec
CONSTANTS
  t1 = t1
  t2 = t2
  Threads <- MCThreads
  Bits = {0, 1}
  Patterns <- MCPatterns
  Modes <- MCModes
  InitBits = {}
  Sticky = {}
  Lengths = {0, 2, 3}
  Capacity = 3
  AtomicWrite = 2
  MaxBytes = 7
INVARIANTS QueueInv PipeInv
PROPERTIES WaitsReturnTheirCommit ClearedBitTakenOnce WaitsEnd WritesWhole BlockedCallsEnd
