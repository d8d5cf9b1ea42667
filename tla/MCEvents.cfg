SPECIFICATION AllSpec
CONSTANTS
  t1 = t1
  t2 = t2
  q1 = q1
  Threads <- MCThreads
  Queues <- MCQueues
  KeySets <- MCKeySets
  OutSizes = {0, 1}
  MaxEop = 1
  MaxFlips = 1
  EmulateTiming = FALSE
  Consoles = {"ps4", "ps5"}
  Rates = {0, 1}
  Phases = 2
  MaxSubmits = 3
INVARIANTS EqueueInv FlipInv
PROPERTIES GnmFollowsGpu CallsComeBack FlipsPaced
CHECK_DEADLOCK FALSE
