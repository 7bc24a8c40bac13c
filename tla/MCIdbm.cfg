CONSTANTS
  P1 = P1
  P2 = P2
  T1 = T1
  Procs = {P1, P2}
  Portals <- MCPortals
  Ifaces <- MCIfaces
  Sources <- MCSources
  Isns <- MCIsns
  HostIfaces <- MCHost
  Commands <- MCCommands
  Running <- MCRunning
  Databases <- MCDatabases
  MaxCmds = 1
  MaxCrash = 1
SPECIFICATION FairSpec
CHECK_DEADLOCK FALSE
INVARIANT LockGuards
PROPERTIES ImplementsStore EveryCommandEnds
