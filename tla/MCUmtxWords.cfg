SPECIFICATION AllSpec
CONSTANTS
  t1 = t1
  t2 = t2
  t3 = t3
  t4 = t4
  a1 = a1
  a2 = a2
  Threads <- MCThreads
  Protocols = {"normal", "unlock2", "pi"}
  Addrs = {a1, a2}
  Words = {w1, w2}
  WakeVals = {0, 2, 5, 10}
  AddrLists <- MCAddrLists
  IntHalf = 4
  MaxStores = 1
  RwThreads <- MCRwThreads
  MaxReaders = 2
  MaxCount = 2
INVARIANTS MutexInv WaitQueueInv RwInv UsemInv
PROPERTIES Progress WakeDiscipline WordWaitersLeave
