SPECIFICATION AdminSpec
CONSTANTS
  Clients = {"c1", "c2", "c3"}
  NotRoot = {"c3"}
  Discs = {"d1", "d2"}
  PollInval = {"d1"}
  Recs = {"a", "a1", "a2", "b"}
  NrSessions <- MCNrSessions
  Leading = {"a1", "a2"}
  Target <- MCTarget
  Iface <- MCIface
  Startup <- MCStartup
  Found = {"a"}
  Setups <- MCSetups
  MaxSess = 3
  MaxReq = 4
  Backlog = 2
  MaxRounds = 1
  HostScenes <- MCHostScenes
  NumEntries = 2
INVARIANTS StopMeansStopped OneSessionPerRecord CountMatchesFill CardTruth
PROPERTIES CommandsEnd ShutdownEnds FlashKept
CHECK_DEADLOCK FALSE
