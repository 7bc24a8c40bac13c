------------------------------- MODULE MCAdmin -------------------------------
(* Instances of Admin for TLC: the scenes of MCDaemon and of MCHost. *)
EXTENDS MCDaemon, MCHost, Admin
==============================================================================
