SPECIFICATION Spec
CONSTANTS
  Scenes <- MCScenes
  PendMax = 1
  PathMax = 1
PROPERTIES UpIsServed Served IfDownEnds
CHECK_DEADLOCK FALSE
