SPECIFICATION AllSpec
CONSTANTS
  t1 = t1
  t2 = t2
  Threads <- MCThreads
  NPages = 3
  NFrames = 2
  MapEnd = 2
  SharedDmem = TRUE
  Prots = {0, 3}
  Total = 5
  Base = 1
  Lens = {1, 2, 3}
  Aligns = {1, 2, 3}
  Windows <- MCWindows
  Types = {0, 3}
SYMMETRY Symm
INVARIANTS MapInv StalePointerDetached DmemInv
PROPERTIES KeepsPageTable KeepsFramePool
