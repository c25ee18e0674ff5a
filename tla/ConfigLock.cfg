SPECIFICATION LiveSpec
CONSTANTS
  t1 = t1
  t2 = t2
  t3 = t3
  gui = gui
  cli = cli
  Threads <- MCThreads
  Processes <- MCProcesses
  ProcessOf <- MCProcessOf
  Nobody = Nobody
  MaxNest = 3
INVARIANTS
  TypeOK
  MutualExclusion
  CounterIsHonest
PROPERTIES
  OnlyTheHolderReleases
  WaitEnds
  Implements
