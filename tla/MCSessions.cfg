SPECIFICATION AllSpec
CONSTANTS
  t1 = t1
  t2 = t2
  t3 = t3
  o1 = o1
  o2 = o2
  n1 = n1
  Threads <- MCThreads
  Objs <- MCObjs
  None = None
  InitCap = 2
  Names <- MCNames
  NoName = NoName
  HostedNames <- MCNoNames
  SuspendName = n1
  AbsentChannels <- MCNoNames
  IntHalf = 8
  Shapes <- MCShapes
  Amounts <- MCAmounts
  KThreads <- MCKThreads
  MaxIds = 2
  MaxValue = 1
  MaxDebt = 1
  DestroyInUse = FALSE
  RefusedNames <- MCNoNames
  Workers <- MCThreads
  GuestMain = t1
  UserActs = {"toggle", "menu", "close"}
INVARIANTS OsemInv KsemInv FlagNamesInv SessionInv
PROPERTIES NameOutlivesOthers EverySleeperServed GuestObeys
CHECK_DEADLOCK FALSE
