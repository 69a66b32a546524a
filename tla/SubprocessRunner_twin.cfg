\* A command that is there but cannot be executed.
CONSTANTS
  PipeCapacity = 2
  MaxPieces = 4
  WorkingDirs = {TRUE, FALSE}
  ForkFails = TRUE
  ExecOutcomes = {"EACCES"}
  Kills = TRUE
  MaxRequests = 1
SPECIFICATION Spec
INVARIANT OneServer
CHECK_DEADLOCK FALSE
