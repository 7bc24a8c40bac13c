SPECIFICATION HostSpec
CONSTANTS
  HostScenes <- PortScenes
  NumEntries = 2
INVARIANTS VectorSuffices
CHECK_DEADLOCK FALSE
