SPECIFICATION Spec
CONSTANTS
  StScenes <- MCStScenes
  IsnsScenes <- MCIsnsScenes
  Sizes = {1, 3}
INVARIANTS SentIsFound RefreshSupervised
PROPERTIES DiscoveryEnds Follows
CHECK_DEADLOCK FALSE
