SPECIFICATION Spec
CONSTANTS
  t1 = t1
  t2 = t2
  q1 = q1
  q2 = q2
  Threads <- MCThreads
  Queues <- MCTwoQueues
  KeySets <- MCLockKeys
  OutSizes = {1}
  MaxEop = 1
  MaxFlips = 1
  EmulateTiming = FALSE
PROPERTY VblankWaiterReturns
CHECK_DEADLOCK FALSE
