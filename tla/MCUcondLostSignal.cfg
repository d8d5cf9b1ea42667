SPECIFICATION CvSpec
CONSTANTS
  t1 = t1
  t2 = t2
  t3 = t3
  Threads <- MCThreads
  Protocols = {"pi"}
  MaxWaiters = 3
  Uses <- MCUses
PROPERTIES SignalReleasesOne
